---- MODULE Spec2Model ----
(***************************************************************************)
(* Section-aware block mutation of the notion-blocks tool                  *)
(* (src/openapi-mcp-server/client/http-client.ts) and of the legacy        *)
(* handlers in src/custom-tools.ts, against a remote block store.          *)
(*                                                                         *)
(* Text is a sequence of one-character strings; Chars maps the name of    *)
(* each text the model uses to its characters.                             *)
(***************************************************************************)
EXTENDS Integers, Sequences, FiniteSets, TLC

\* ------------------------------------------------------------------ bounds
\* longest short page (number of top-level blocks) a behaviour starts from
MaxBlocks == 3
\* number of tool invocations in one activity-log behaviour
MaxCalls == 2
\* blocks that follow the filler paragraphs of a long page
MaxTail == 1
\* pieces of inline markup in a text given to the rich-text compiler
MaxPieces == 3
\* lines of a document given to the block compiler
MaxLines == 3
\* most options of a select, status or multi-select property, most elements of
\* a multi-select value
MaxOptions == 2

\* page_size of every list-children request
PageSize == 100

\* ------------------------------------------------------------------- texts
Chars ==
  [ t \in {"Activity Log", "Notes", "2025-12-15", "2025-12-15T09:00", "2025-12-14",
           "Buy milk", "Call Bob", "MILK", "zzz", "e1", "e2", "e3", "",
           " \n ", "h2: New\n\n- x"} |->
    CASE t = "Activity Log"     -> <<"A","c","t","i","v","i","t","y"," ","L","o","g">>
      [] t = "Notes"            -> <<"N","o","t","e","s">>
      [] t = "2025-12-15"       -> <<"2","0","2","5","-","1","2","-","1","5">>
      [] t = "2025-12-15T09:00" -> <<"2","0","2","5","-","1","2","-","1","5","T","0","9",":","0","0">>
      [] t = "2025-12-14"       -> <<"2","0","2","5","-","1","2","-","1","4">>
      [] t = "Buy milk"         -> <<"B","u","y"," ","m","i","l","k">>
      [] t = "Call Bob"         -> <<"C","a","l","l"," ","B","o","b">>
      [] t = "MILK"             -> <<"M","I","L","K">>
      [] t = "zzz"              -> <<"z","z","z">>
      [] t = "e1"               -> <<"e","1">>
      [] t = "e2"               -> <<"e","2">>
      [] t = "e3"               -> <<"e","3">>
      [] t = ""                 -> <<>>
      [] t = " \n "             -> <<" ","\n"," ">>
      [] t = "h2: New\n\n- x"    -> <<"h","2",":"," ","N","e","w","\n","\n","-"," ","x">> ]

Upper == <<"A","B","C","D","E","F","G","H","I","J","K","L","M",
           "N","O","P","Q","R","S","T","U","V","W","X","Y","Z">>
Lower == <<"a","b","c","d","e","f","g","h","i","j","k","l","m",
           "n","o","p","q","r","s","t","u","v","w","x","y","z">>
Digits == {"0","1","2","3","4","5","6","7","8","9"}

\* String.prototype.toLowerCase, one character
LowerChar(c) ==
  IF \E i \in 1..26 : Upper[i] = c
  THEN Lower[CHOOSE i \in 1..26 : Upper[i] = c]
  ELSE c

toLowerCase(s) == [i \in 1..Len(s) |-> LowerChar(s[i])]

\* String.prototype.startsWith
startsWith(s, p) == Len(p) <= Len(s) /\ SubSeq(s, 1, Len(p)) = p

\* String.prototype.includes
includes(s, p) == \E i \in 0..(Len(s) - Len(p)) : SubSeq(s, i + 1, i + Len(p)) = p

IsWordChar(c) == c \in Digits \/ c = "_" \/ (\E i \in 1..26 : Lower[i] = c \/ Upper[i] = c)
IsSpace(c) == c \in {" ", "\t", "\n"}

RECURSIVE CollapseSpaces(_)
\* .replace(/\s+/g, ' ')
CollapseSpaces(s) ==
  IF s = <<>> THEN <<>>
  ELSE IF IsSpace(s[1])
       THEN IF Len(s) > 1 /\ IsSpace(s[2]) THEN CollapseSpaces(Tail(s))
            ELSE <<" ">> \o CollapseSpaces(Tail(s))
       ELSE <<s[1]>> \o CollapseSpaces(Tail(s))

RECURSIVE trim(_)
\* String.prototype.trim
trim(s) ==
  IF s = <<>> THEN <<>>
  ELSE IF IsSpace(s[1]) THEN trim(Tail(s))
  ELSE IF IsSpace(s[Len(s)]) THEN trim(SubSeq(s, 1, Len(s) - 1))
  ELSE s

normalizeText(text) ==
  LET lowered  == toLowerCase(text)
      spaced   == [i \in 1..Len(lowered) |-> IF lowered[i] \in {"-", "_"} THEN " " ELSE lowered[i]]
      stripped == SelectSeq(spaced, LAMBDA c : IsWordChar(c) \/ IsSpace(c))
  IN  trim(CollapseSpaces(stripped))

\* aliases of SECTION_CONFIGS, keyed by the lowercased section name
ActivityLogAliases ==
  << <<"a","c","t","i","v","i","t","y"," ","l","o","g">>,
     <<"a","c","t","i","v","i","t","y","l","o","g">>,
     <<"a","c","t","i","v","i","t","y","-","l","o","g">>,
     <<"l","o","g">>,
     <<"h","i","s","t","o","r","y">>,
     <<"u","p","d","a","t","e","s">> >>
ToDoAliases ==
  << <<"t","o","d","o">>, <<"t","o","-","d","o">>, <<"t","o"," ","d","o">>,
     <<"t","o","d","o","s">>, <<"c","h","e","c","k","l","i","s","t">>,
     <<"t","a","s","k","s">> >>

SECTION_CONFIGS(key) ==
  IF key = <<"a","c","t","i","v","i","t","y"," ","l","o","g">> THEN ActivityLogAliases
  ELSE IF key = <<"t","o"," ","d","o">> THEN ToDoAliases
  ELSE <<>>

\* the name alone, without the aliases of SECTION_CONFIGS
matchesSectionName_NoAliases(text, sectionName) ==
  includes(normalizeText(text), normalizeText(sectionName))

matchesSectionName(text, sectionName) ==
  LET normalizedText    == normalizeText(text)
      normalizedSection == normalizeText(sectionName)
      aliases           == SECTION_CONFIGS(toLowerCase(sectionName))
  IN  \/ includes(normalizedText, normalizedSection)
      \/ \E a \in 1..Len(aliases) : includes(normalizedText, normalizeText(aliases[a]))

\* ------------------------------------------------------------------ blocks
\* A block of the remote store: id, type, rich_text (spans with plain_text,
\* annotations.bold and, for a date mention, mention.date.start), to_do.checked
\* and the child blocks (log lines) of a toggle.
NoId == 0
Null == <<"<null>">>

Span(txt, isBold) == [type |-> "text", plain_text |-> txt, bold |-> isBold, date |-> <<>>]

Blk(i, ty, rt) == [id |-> i, type |-> ty, rich_text |-> rt, checked |-> FALSE, children |-> <<>>]

\* rich text of a date toggle: one date mention
dateMentionRichText(dateStr) ==
  << [type |-> "mention", plain_text |-> dateStr, bold |-> FALSE, date |-> dateStr] >>

RECURSIVE richTextToPlain(_)
richTextToPlain(richText) ==
  IF richText = <<>> THEN <<>>
  ELSE richText[1].plain_text \o richTextToPlain(Tail(richText))

hasDateMention(richText, dateStr) ==
  \E i \in 1..Len(richText) :
    /\ richText[i].type = "mention"
    /\ richText[i].date # <<>>
    /\ startsWith(richText[i].date, dateStr)

Truthy(text) == text # Null /\ text # <<>>

\* the text of every paragraph, bold or not
getBlockText_AnyParagraph(block) ==
  IF block.type \in {"callout", "heading_1", "heading_2", "heading_3", "toggle", "paragraph"}
  THEN richTextToPlain(block.rich_text)
  ELSE Null

getBlockText(block) ==
  CASE block.type \in {"callout", "heading_1", "heading_2", "heading_3", "toggle"} ->
         richTextToPlain(block.rich_text)
    [] block.type = "paragraph" ->
         IF Len(block.rich_text) > 0 /\ block.rich_text[1].bold
         THEN richTextToPlain(block.rich_text)
         ELSE Null
    [] OTHER -> Null

isSectionHeader(block) ==
  CASE block.type \in {"heading_1", "heading_2", "heading_3"} -> TRUE
    [] block.type = "callout" ->
         \E i \in 1..Len(block.rich_text) : block.rich_text[i].bold
    [] block.type = "paragraph" ->
         Len(block.rich_text) > 0 /\ block.rich_text[1].bold
    [] OTHER -> FALSE

\* least element of a non-empty set of indexes
First(S) == CHOOSE i \in S : \A j \in S : i <= j

\* the for loop of findSectionBlock: the first index whose block has a truthy
\* text that matches; 0 stands for null
findSectionBlock(blocks, sectionName) ==
  LET hits == { i \in 1..Len(blocks) :
                  /\ Truthy(getBlockText(blocks[i]))
                  /\ matchesSectionName(getBlockText(blocks[i]), sectionName) }
  IN  IF hits = {} THEN 0 ELSE First(hits)

\* the for loop of getSectionBlocks: it pushes from sectionIndex + 1 on and
\* breaks at the first section header
getSectionBlocks(blocks, sectionIndex) ==
  LET headers == { i \in (sectionIndex + 1)..Len(blocks) : isSectionHeader(blocks[i]) }
  IN  SubSeq(blocks, sectionIndex + 1,
             IF headers = {} THEN Len(blocks) ELSE First(headers) - 1)

RECURSIVE ButtonScan(_, _, _)
\* the backward loop shared by findLastButtonBlock and findActivityLogInsertAfter:
\* every button passed overwrites lastButtonId, the first non-button stops it
ButtonScan(blocks, i, lastButtonId) ==
  IF i < 1 THEN lastButtonId
  ELSE IF blocks[i].type = "button" THEN ButtonScan(blocks, i - 1, blocks[i].id)
  ELSE lastButtonId

findLastButtonBlock(blocks) == ButtonScan(blocks, Len(blocks), NoId)

findActivityLogInsertAfter(blocks, sectionIndex) ==
  LET sectionBlock  == blocks[sectionIndex]
      sectionBlocks == getSectionBlocks(blocks, sectionIndex)
      lastButtonId  == ButtonScan(sectionBlocks, Len(sectionBlocks), NoId)
  IN  IF lastButtonId # NoId THEN lastButtonId ELSE sectionBlock.id

createSectionCallout(i, sectionName) ==
  Blk(i, "callout", << Span(sectionName, TRUE) >>)

\* -------------------------------------------------------- block compiler
RECURSIVE split(_, _)
\* String.prototype.split on a one-character separator
split(s, sep) ==
  IF \E i \in 1..Len(s) : s[i] = sep
  THEN LET i == CHOOSE j \in 1..Len(s) : s[j] = sep /\ \A k \in 1..(j - 1) : s[k] # sep
       IN  <<SubSeq(s, 1, i - 1)>> \o split(SubSeq(s, i + 1, Len(s)), sep)
  ELSE <<s>>

substring(s, n) == SubSeq(s, n + 1, Len(s))

RECURSIVE DigitRun(_, _)
\* number of leading digits of s from position i on
DigitRun(s, i) == IF i <= Len(s) /\ s[i] \in Digits THEN 1 + DigitRun(s, i + 1) ELSE 0

\* /^\d\.\s/: one digit only
NumberedPrefix_OneDigit(s) ==
  IF Len(s) >= 3 /\ s[1] \in Digits /\ s[2] = "." /\ IsSpace(s[3]) THEN 3 ELSE 0

\* /^\d+\.\s/
NumberedPrefix(s) ==
  LET d == DigitRun(s, 1)
  IN  IF d >= 1 /\ Len(s) >= d + 2 /\ s[d + 1] = "." /\ IsSpace(s[d + 2]) THEN d + 2 ELSE 0

\* textToRichText of text without inline markup: one plain span
PlainRichText(text) == << Span(text, FALSE) >>

Compiled(ty, text, isChecked) ==
  [Blk(NoId, ty, PlainRichText(text)) EXCEPT !.checked = isChecked]

RECURSIVE IndexOfAny(_, _, _)
\* first position >= i of s holding a character of set cs, Len(s) + 1 if none
IndexOfAny(s, cs, i) ==
  IF i > Len(s) THEN Len(s) + 1
  ELSE IF s[i] \in cs THEN i ELSE IndexOfAny(s, cs, i + 1)

RECURSIVE SkipSpaces(_, _)
SkipSpaces(s, i) == IF i <= Len(s) /\ IsSpace(s[i]) THEN SkipSpaces(s, i + 1) ELSE i

\* trimmed.match(/^callout\[([^,\]]+)(?:,([^\]]+))?\]:\s*(.*)$/): the text
\* group, trimmed; Null when the line does not match
calloutMatch(trimmed) ==
  LET head     == <<"c","a","l","l","o","u","t","[">>
      iconEnd  == IndexOfAny(trimmed, {",", "]"}, Len(head) + 1)
      colorEnd == IF iconEnd <= Len(trimmed) /\ trimmed[iconEnd] = ","
                  THEN IndexOfAny(trimmed, {"]"}, iconEnd + 1)
                  ELSE iconEnd
      closed   == /\ startsWith(trimmed, head)
                  /\ iconEnd > Len(head) + 1
                  /\ (colorEnd # iconEnd => colorEnd > iconEnd + 1)
                  /\ colorEnd + 1 <= Len(trimmed)
                  /\ trimmed[colorEnd] = "]"
                  /\ trimmed[colorEnd + 1] = ":"
  IN  IF closed
      THEN trim(SubSeq(trimmed, SkipSpaces(trimmed, colorEnd + 2), Len(trimmed)))
      ELSE Null

\* the block parseStructuredContent builds from one non-blank, non-table line
lineBlock(trimmed) ==
  IF trimmed = <<"-","-","-">> THEN Blk(NoId, "divider", <<>>)
  ELSE IF startsWith(trimmed, <<"h","1",":">>) THEN Compiled("heading_1", trim(substring(trimmed, 3)), FALSE)
  ELSE IF startsWith(trimmed, <<"h","2",":">>) THEN Compiled("heading_2", trim(substring(trimmed, 3)), FALSE)
  ELSE IF startsWith(trimmed, <<"h","3",":">>) THEN Compiled("heading_3", trim(substring(trimmed, 3)), FALSE)
  ELSE IF startsWith(trimmed, <<"-"," ">>) THEN Compiled("bulleted_list_item", substring(trimmed, 2), FALSE)
  ELSE IF NumberedPrefix(trimmed) > 0
       THEN Compiled("numbered_list_item", substring(trimmed, NumberedPrefix(trimmed)), FALSE)
  ELSE IF startsWith(trimmed, <<"[","x","]"," ">>) \/ startsWith(trimmed, <<"[","X","]"," ">>)
       THEN Compiled("to_do", substring(trimmed, 4), TRUE)
  ELSE IF startsWith(trimmed, <<"[","]"," ">>) THEN Compiled("to_do", substring(trimmed, 3), FALSE)
  ELSE IF startsWith(trimmed, <<">"," ">>) THEN Compiled("quote", substring(trimmed, 2), FALSE)
  ELSE IF \/ startsWith(trimmed, <<"!",">"," ">>)
          \/ startsWith(trimmed, <<"c","a","l","l","o","u","t",":">>)
          \/ startsWith(trimmed, <<"c","a","l","l","o","u","t","[">>)
       THEN Compiled("callout",
                     IF calloutMatch(trimmed) # Null THEN calloutMatch(trimmed)
                     ELSE IF startsWith(trimmed, <<"!",">"," ">>) THEN substring(trimmed, 3)
                     ELSE IF startsWith(trimmed, <<"c","a","l","l","o","u","t",":"," ">>) THEN substring(trimmed, 9)
                     ELSE IF startsWith(trimmed, <<"c","a","l","l","o","u","t",":">>) THEN substring(trimmed, 8)
                     ELSE <<>>,
                     FALSE)
  ELSE Compiled("paragraph", trimmed, FALSE)

\* String.prototype.endsWith
endsWith(s, p) == Len(p) <= Len(s) /\ SubSeq(s, Len(s) - Len(p) + 1, Len(s)) = p

\* cells of a markdown table row: | cell1 | cell2 |
parseTableRow(line) ==
  LET trimmed == trim(line)
      parts   == split(trimmed, "|")
  IN  IF ~startsWith(trimmed, <<"|">>) \/ ~endsWith(trimmed, <<"|">>) THEN <<>>
      ELSE [k \in 1..(IF Len(parts) > 2 THEN Len(parts) - 2 ELSE 0) |-> trim(parts[k + 1])]

\* characters of [\s\-:]
IsRuleChar(c) == IsSpace(c) \/ c = "-" \/ c = ":"

\* /^\|[\s\-:]+\|/.test(trimmed) && trimmed.split('|').every(part => /^[\s\-:]*$/.test(part))
isTableSeparator(line) ==
  LET trimmed == trim(line)
      stops   == { j \in 2..Len(trimmed) : ~IsRuleChar(trimmed[j]) }
      stop    == IF stops = {} THEN Len(trimmed) + 1 ELSE First(stops)
      parts   == split(trimmed, "|")
  IN  /\ startsWith(trimmed, <<"|">>)
      /\ stop > 2 /\ stop <= Len(trimmed) /\ trimmed[stop] = "|"
      /\ \A k \in 1..Len(parts) : \A j \in 1..Len(parts[k]) : IsRuleChar(parts[k][j])

\* the table block built from the collected rows
TableBlk(tableRows, hasColumnHeader) ==
  [id |-> NoId, type |-> "table", rich_text |-> <<>>, checked |-> FALSE,
   table_width |-> CHOOSE w \in { Len(tableRows[r]) : r \in 1..Len(tableRows) } :
                     \A r \in 1..Len(tableRows) : Len(tableRows[r]) <= w,
   has_column_header |-> hasColumnHeader,
   children |-> [r \in 1..Len(tableRows) |->
                   [type |-> "table_row",
                    cells |-> [k \in 1..Len(tableRows[r]) |-> PlainRichText(tableRows[r][k])]]]]

RECURSIVE tableLoop(_, _, _, _, _)
\* the inner while loop that collects consecutive table rows from lines[i] on;
\* next is the index of the first line it did not consume
tableLoop(lines, i, tableRows, hasColumnHeader, isFirstRow) ==
  IF i > Len(lines) \/ ~startsWith(trim(lines[i]), <<"|">>)
  THEN [rows |-> tableRows, header |-> hasColumnHeader, next |-> i]
  ELSE LET currentLine == trim(lines[i])
           cells       == parseTableRow(currentLine)
       IN  IF isTableSeparator(currentLine)
           THEN tableLoop(lines, i + 1, tableRows,
                          hasColumnHeader \/ isFirstRow \/ Len(tableRows) = 1, isFirstRow)
           ELSE IF Len(cells) > 0
                THEN tableLoop(lines, i + 1, Append(tableRows, cells), hasColumnHeader, FALSE)
                ELSE tableLoop(lines, i + 1, tableRows, hasColumnHeader, isFirstRow)

RECURSIVE parseLines_KeepBlank(_, _)
\* the loop without the blank-line skip: a blank line becomes an empty paragraph
parseLines_KeepBlank(lines, i) ==
  IF i > Len(lines) THEN <<>>
  ELSE LET trimmed == trim(lines[i])
           lowered == toLowerCase(trimmed)
       IN  IF /\ lowered \in { <<"t","a","b","l","e",":">>, <<"t","a","b","l","e">> }
              /\ i + 1 <= Len(lines)
              /\ startsWith(trim(lines[i + 1]), <<"|">>)
           THEN parseLines_KeepBlank(lines, i + 1)
           ELSE IF startsWith(trimmed, <<"|">>) /\ endsWith(trimmed, <<"|">>)
                THEN LET t == tableLoop(lines, i, <<>>, FALSE, TRUE)
                     IN  (IF Len(t.rows) > 0 THEN << TableBlk(t.rows, t.header) >> ELSE <<>>)
                           \o parseLines_KeepBlank(lines, t.next)
           ELSE <<lineBlock(trimmed)>> \o parseLines_KeepBlank(lines, i + 1)

RECURSIVE parseLines(_, _)
\* the while loop of parseStructuredContent over lines[i..]
parseLines(lines, i) ==
  IF i > Len(lines) THEN <<>>
  ELSE LET trimmed == trim(lines[i])
           lowered == toLowerCase(trimmed)
       IN  IF trimmed = <<>> THEN parseLines(lines, i + 1)
           ELSE IF /\ lowered \in { <<"t","a","b","l","e",":">>, <<"t","a","b","l","e">> }
                   /\ i + 1 <= Len(lines)
                   /\ startsWith(trim(lines[i + 1]), <<"|">>)
                THEN parseLines(lines, i + 1)
           ELSE IF startsWith(trimmed, <<"|">>) /\ endsWith(trimmed, <<"|">>)
                THEN LET t == tableLoop(lines, i, <<>>, FALSE, TRUE)
                     IN  (IF Len(t.rows) > 0 THEN << TableBlk(t.rows, t.header) >> ELSE <<>>)
                           \o parseLines(lines, t.next)
           ELSE <<lineBlock(trimmed)>> \o parseLines(lines, i + 1)

parseStructuredContent(content) == parseLines(split(content, "\n"), 1)

\* the line parser inlined in the replace-page-section handler: no callout
\* and no table rule
handlerLineBlock(trimmed) ==
  IF trimmed = <<"-","-","-">> THEN Blk(NoId, "divider", <<>>)
  ELSE IF startsWith(trimmed, <<"h","1",":">>) THEN Compiled("heading_1", trim(substring(trimmed, 3)), FALSE)
  ELSE IF startsWith(trimmed, <<"h","2",":">>) THEN Compiled("heading_2", trim(substring(trimmed, 3)), FALSE)
  ELSE IF startsWith(trimmed, <<"h","3",":">>) THEN Compiled("heading_3", trim(substring(trimmed, 3)), FALSE)
  ELSE IF startsWith(trimmed, <<"-"," ">>) THEN Compiled("bulleted_list_item", substring(trimmed, 2), FALSE)
  ELSE IF NumberedPrefix(trimmed) > 0
       THEN Compiled("numbered_list_item", substring(trimmed, NumberedPrefix(trimmed)), FALSE)
  ELSE IF startsWith(trimmed, <<"[","x","]"," ">>) \/ startsWith(trimmed, <<"[","X","]"," ">>)
       THEN Compiled("to_do", substring(trimmed, 4), TRUE)
  ELSE IF startsWith(trimmed, <<"[","]"," ">>) THEN Compiled("to_do", substring(trimmed, 3), FALSE)
  ELSE IF startsWith(trimmed, <<">"," ">>) THEN Compiled("quote", substring(trimmed, 2), FALSE)
  ELSE Compiled("paragraph", trimmed, FALSE)

RECURSIVE handlerParseLines(_, _)
handlerParseLines(lines, i) ==
  IF i > Len(lines) THEN <<>>
  ELSE LET trimmed == trim(lines[i])
       IN  IF trimmed = <<>> THEN handlerParseLines(lines, i + 1)
           ELSE <<handlerLineBlock(trimmed)>> \o handlerParseLines(lines, i + 1)

handlerParse(new_content) == handlerParseLines(split(new_content, "\n"), 1)

\* ------------------------------------------------------------ remote store
\* GET /v1/blocks/{id}/children with page_size: the first PageSize children
ListChildren(pg) == SubSeq(pg, 1, IF Len(pg) < PageSize THEN Len(pg) ELSE PageSize)

IndexOfId(pg, i) == IF \E k \in 1..Len(pg) : pg[k].id = i
                    THEN CHOOSE k \in 1..Len(pg) : pg[k].id = i
                    ELSE 0

\* PATCH /v1/blocks/{page}/children: at the end, or right after block `after`
AppendChildren(pg, after, new) ==
  IF after = NoId THEN pg \o new
  ELSE LET k == IndexOfId(pg, after)
       IN  SubSeq(pg, 1, k) \o new \o SubSeq(pg, k + 1, Len(pg))

\* PATCH /v1/blocks/{block}/children on a top-level block of the page
AppendToBlock(pg, i, new) ==
  LET k == IndexOfId(pg, i)
  IN  IF k = 0 THEN pg
      ELSE SubSeq(pg, 1, k - 1) \o << [pg[k] EXCEPT !.children = @ \o new] >>
             \o SubSeq(pg, k + 1, Len(pg))

\* DELETE /v1/blocks/{id}
DeleteBlock(pg, i) == SelectSeq(pg, LAMBDA b : b.id # i)

\* PATCH /v1/blocks/{id} with to_do.checked = true
PatchChecked(pg, i) ==
  LET k == IndexOfId(pg, i)
  IN  IF k = 0 THEN pg
      ELSE SubSeq(pg, 1, k - 1) \o << [pg[k] EXCEPT !.checked = TRUE] >>
             \o SubSeq(pg, k + 1, Len(pg))

\* ------------------------------------------------------------------- state
VARIABLES
  page,     \* the remote page: its top-level blocks, in order
  nextId,   \* id the store gives to the next block it creates
  inv,      \* per invocation slot: position and locals of the running handler
  result,   \* per invocation slot: what the last invocation returned
  calls,    \* per invocation slot: the remote calls the invocation issued, in order
  ncalls,   \* invocations started so far
  pre,      \* the page when the last invocation started
  logged,   \* log lines whose append call succeeded, in call order
  input,    \* argument of a compiler or locator function under test
  output,   \* <<>> before the function is applied, << its value >> after
  remote,   \* the data source schema, the page notion-page updates, the pages it created
  prev      \* the notion-page invocation before the running one: what it was asked

vars == <<page, nextId, inv, result, calls, ncalls, pre, logged, input, output,
          remote, prev>>

\* the state that only the notion-page tool reads and writes
pageTool == <<remote, prev>>

Procs == {1, 2}

\* new Date() of every invocation: one calendar day
dateStr == Chars["2025-12-15"]

IdleInv == [pc |-> "idle", op |-> "none", arg |-> "", content |-> "", blocks |-> <<>>,
            target |-> NoId, ids |-> <<>>, k |-> 0, deleted |-> <<>>, after |-> NoId]

NoResult == [status |-> "none", error |-> "", section_created |-> FALSE,
             activity_logged |-> FALSE, deleted_count |-> 0, inserted_count |-> 0]

Failure(msg) == [NoResult EXCEPT !.status = "error", !.error = msg]
Threw == [NoResult EXCEPT !.status = "threw"]
Success == [NoResult EXCEPT !.status = "ok"]

Call(o, t, okay) == [op |-> o, target |-> t, ok |-> okay]

\* a log line: bulleted_list_item holding textToRichText(logEntry)
LogLine(mark, text) == [type |-> "bulleted_list_item", mark |-> mark, text |-> text]

\* variant: the toggle is dated the day before (a date taken in another zone)
DateToggle_WrongDay(i, line) ==
  [Blk(i, "toggle", dateMentionRichText(Chars["2025-12-14"])) EXCEPT !.children = <<line>>]

DateToggle(i, line) ==
  [Blk(i, "toggle", dateMentionRichText(dateStr)) EXCEPT !.children = <<line>>]

\* ------------------------------------------------- add-activity-log (merge)
RECURSIVE firstButtonIndexLoop(_, _, _)
\* the loop that finds the first button of the trailing run (1-based index)
firstButtonIndexLoop(blocks, i, firstButtonIndex) ==
  IF i < 1 THEN firstButtonIndex
  ELSE IF blocks[i].type = "button" THEN firstButtonIndexLoop(blocks, i - 1, i)
  ELSE firstButtonIndex

RECURSIVE todayToggleLoop(_, _)
\* id of the first toggle of sectionBlocks that is labelled with dateStr
todayToggleLoop(sectionBlocks, i) ==
  IF i > Len(sectionBlocks) THEN NoId
  ELSE LET block == sectionBlocks[i]
       IN  IF /\ block.type = "toggle"
              /\ \/ hasDateMention(block.rich_text, dateStr)
                 \/ richTextToPlain(block.rich_text) = dateStr
           THEN block.id
           ELSE todayToggleLoop(sectionBlocks, i + 1)

\* The append request add-activity-log builds from the listed blocks:
\* parent = NoId is the page itself, otherwise the toggle appended to.
AalPlan(blocks, line, newId) ==
  LET activityLogSection == findSectionBlock(blocks, Chars["Activity Log"])
  IN  IF activityLogSection = 0
      THEN LET lastButtonId     == findLastButtonBlock(blocks)
               firstButtonIndex == firstButtonIndexLoop(blocks, Len(blocks), Len(blocks))
           IN  [parent |-> NoId,
                after  |-> IF lastButtonId # NoId /\ firstButtonIndex > 1
                           THEN blocks[firstButtonIndex - 1].id ELSE NoId,
                children |-> << createSectionCallout(newId, Chars["Activity Log"]),
                                DateToggle(newId + 1, line) >>,
                section_created |-> TRUE]
      ELSE LET sectionBlocks == getSectionBlocks(blocks, activityLogSection)
               todayToggleId == todayToggleLoop(sectionBlocks, 1)
           IN  IF todayToggleId # NoId
               THEN [parent |-> todayToggleId, after |-> NoId, children |-> <<line>>,
                     section_created |-> FALSE]
               ELSE [parent |-> NoId,
                     after  |-> findActivityLogInsertAfter(blocks, activityLogSection),
                     children |-> << DateToggle(newId, line) >>,
                     section_created |-> FALSE]

\* whether the store accepts an append request, and the page it leaves
PlanAccepted(pg, plan) ==
  IF plan.parent # NoId THEN IndexOfId(pg, plan.parent) # 0
  ELSE plan.after = NoId \/ IndexOfId(pg, plan.after) # 0

ApplyPlan(pg, plan) ==
  IF plan.parent # NoId THEN AppendToBlock(pg, plan.parent, plan.children)
  ELSE AppendChildren(pg, plan.after, plan.children)

PlanNewIds(plan) == IF plan.parent # NoId THEN 0 ELSE Len(plan.children)

Entries == {"e1", "e2"}

\* early return: entry required
AalNoEntry(p) ==
  /\ inv[p].pc = "idle"
  /\ inv' = [inv EXCEPT ![p] = [IdleInv EXCEPT !.op = "add-activity-log"]]
  /\ result' = [result EXCEPT ![p] = Failure("entry required")]
  /\ calls' = [calls EXCEPT ![p] = <<>>]
  /\ ncalls' = ncalls + 1
  /\ pre' = page
  /\ UNCHANGED <<page, nextId, logged>>
  /\ UNCHANGED <<input, output, pageTool>>

\* list the page's children
AalList(p) ==
  /\ inv[p].pc = "idle"
  /\ \E entry \in Entries, ok \in BOOLEAN :
       /\ inv' = [inv EXCEPT ![p] =
                    IF ok THEN [IdleInv EXCEPT !.pc = "listed", !.op = "add-activity-log",
                                               !.arg = entry, !.blocks = ListChildren(page)]
                    ELSE [IdleInv EXCEPT !.op = "add-activity-log", !.arg = entry]]
       /\ result' = [result EXCEPT ![p] = IF ok THEN NoResult ELSE Threw]
       /\ calls' = [calls EXCEPT ![p] = << Call("list", NoId, ok) >>]
  /\ ncalls' = ncalls + 1
  /\ pre' = page
  /\ UNCHANGED <<page, nextId, logged>>
  /\ UNCHANGED <<input, output, pageTool>>

\* decide from the listed blocks, issue the one append, return
AalAppend(p) ==
  /\ inv[p].pc = "listed" /\ inv[p].op = "add-activity-log"
  /\ \E plan \in { AalPlan(inv[p].blocks, LogLine("", Chars[inv[p].arg]), nextId) } :
         \E ok \in {b \in BOOLEAN : b => PlanAccepted(page, plan)} :
           /\ logged' = IF ok THEN Append(logged, LogLine("", Chars[inv[p].arg])) ELSE logged
           /\ page' = IF ok THEN ApplyPlan(page, plan) ELSE page
           /\ nextId' = IF ok THEN nextId + PlanNewIds(plan) ELSE nextId
           /\ result' = [result EXCEPT ![p] =
                           IF ok THEN [Success EXCEPT !.section_created = plan.section_created]
                           ELSE Threw]
           /\ calls' = [calls EXCEPT ![p] =
                          Append(@, Call("append", IF plan.parent # NoId THEN plan.parent ELSE NoId, ok))]
  /\ inv' = [inv EXCEPT ![p].pc = "idle"]
  /\ UNCHANGED <<ncalls, pre>>
  /\ UNCHANGED <<input, output, pageTool>>

\* ------------------------------------------------------------ complete-todo
\* variant: the text test is lost, the first to_do is taken
targetBlockLoop_AnyTodo(blocks, item_text, i) ==
  LET hits == { j \in i..Len(blocks) : blocks[j].type = "to_do" }
  IN  IF hits = {} THEN NoId ELSE blocks[First(hits)].id

\* variant: the break is lost, the last matching to_do is taken
targetBlockLoop_NoBreak(blocks, item_text, i) ==
  LET hits == { j \in i..Len(blocks) :
                  /\ blocks[j].type = "to_do"
                  /\ includes(toLowerCase(richTextToPlain(blocks[j].rich_text)),
                              toLowerCase(Chars[item_text])) }
  IN  IF hits = {} THEN NoId
      ELSE blocks[CHOOSE j \in hits : \A k \in hits : k <= j].id

\* the for loop that looks for the to-do, from index i on: the id of the first
\* to_do whose plain text contains item_text, case-insensitively; NoId for null
targetBlockLoop(blocks, item_text, i) ==
  LET hits == { j \in i..Len(blocks) :
                  /\ blocks[j].type = "to_do"
                  /\ includes(toLowerCase(richTextToPlain(blocks[j].rich_text)),
                              toLowerCase(Chars[item_text])) }
  IN  IF hits = {} THEN NoId ELSE blocks[First(hits)].id

\* logEntry of a completion: the check mark and the item's full text
CompletionLine(block) ==
  LogLine("done", richTextToPlain(block.rich_text))

\* variant: a new date toggle goes right after the section header
CtPlan_AfterHeader(blocks, line, newId) ==
  LET activityLogSection == findSectionBlock(blocks, Chars["Activity Log"])
  IN  IF activityLogSection # 0
      THEN LET sectionBlocks == getSectionBlocks(blocks, activityLogSection)
               todayToggleId == todayToggleLoop(sectionBlocks, 1)
           IN  IF todayToggleId # NoId
               THEN [issue |-> TRUE, parent |-> todayToggleId, after |-> NoId,
                     children |-> <<line>>, section_created |-> FALSE]
               ELSE [issue |-> TRUE, parent |-> NoId,
                     after |-> blocks[activityLogSection].id,
                     children |-> << DateToggle(newId, line) >>, section_created |-> FALSE]
      ELSE [issue |-> FALSE, parent |-> NoId, after |-> NoId, children |-> <<>>,
            section_created |-> FALSE]

\* The append request complete-todo builds after the patch; issue = FALSE when
\* it issues none.
CtPlan(blocks, line, newId) ==
  LET activityLogSection == findSectionBlock(blocks, Chars["Activity Log"])
  IN  IF activityLogSection # 0
      THEN LET sectionBlocks == getSectionBlocks(blocks, activityLogSection)
               todayToggleId == todayToggleLoop(sectionBlocks, 1)
           IN  IF todayToggleId # NoId
               THEN [issue |-> TRUE, parent |-> todayToggleId, after |-> NoId,
                     children |-> <<line>>, section_created |-> FALSE]
               ELSE [issue |-> TRUE, parent |-> NoId,
                     after |-> findActivityLogInsertAfter(blocks, activityLogSection),
                     children |-> << DateToggle(newId, line) >>, section_created |-> FALSE]
      ELSE [issue |-> FALSE, parent |-> NoId, after |-> NoId, children |-> <<>>,
            section_created |-> FALSE]

ItemTexts == {"MILK", "zzz"}

\* early return: item_text required
CtNoItem(p) ==
  /\ inv[p].pc = "idle"
  /\ inv' = [inv EXCEPT ![p] = [IdleInv EXCEPT !.op = "complete-todo"]]
  /\ result' = [result EXCEPT ![p] = Failure("item_text required")]
  /\ calls' = [calls EXCEPT ![p] = <<>>]
  /\ ncalls' = ncalls + 1
  /\ pre' = page
  /\ UNCHANGED <<page, nextId, logged>>
  /\ UNCHANGED <<input, output, pageTool>>

\* list the page's children and look for the to-do
CtList(p) ==
  /\ inv[p].pc = "idle"
  /\ \E item_text \in ItemTexts, ok \in BOOLEAN :
       LET blocks == ListChildren(page)
           target == targetBlockLoop(blocks, item_text, 1)
       IN  /\ inv' = [inv EXCEPT ![p] =
                        IF ok /\ target # NoId
                        THEN [IdleInv EXCEPT !.pc = "listed", !.op = "complete-todo",
                                             !.arg = item_text, !.blocks = blocks,
                                             !.target = target]
                        ELSE [IdleInv EXCEPT !.op = "complete-todo", !.arg = item_text,
                                             !.blocks = IF ok THEN blocks ELSE <<>>]]
           /\ result' = [result EXCEPT ![p] =
                           IF ~ok THEN Threw
                           ELSE IF target = NoId THEN Failure("No todo item found")
                           ELSE NoResult]
           /\ calls' = [calls EXCEPT ![p] = << Call("list", NoId, ok) >>]
  /\ ncalls' = ncalls + 1
  /\ pre' = page
  /\ UNCHANGED <<page, nextId, logged>>
  /\ UNCHANGED <<input, output, pageTool>>

\* logEntry of the running complete-todo
CtLine(p) == CompletionLine(inv[p].blocks[IndexOfId(inv[p].blocks, inv[p].target)])

\* variant: a failing patch is issued again instead of ending the invocation
CtPatch_Retry(p) ==
  /\ inv[p].pc = "listed" /\ inv[p].op = "complete-todo"
  /\ \E ok \in {b \in BOOLEAN : b => IndexOfId(page, inv[p].target) # 0},
        plan \in { CtPlan(inv[p].blocks, CtLine(p), nextId) } :
           /\ page' = IF ok THEN PatchChecked(page, inv[p].target) ELSE page
           /\ calls' = [calls EXCEPT ![p] = Append(@, Call("patch", inv[p].target, ok))]
           /\ inv' = [inv EXCEPT ![p].pc = IF ~ok THEN "listed"
                                           ELSE IF plan.issue THEN "patched" ELSE "idle"]
           /\ result' = [result EXCEPT ![p] =
                           IF ok /\ ~plan.issue THEN Success ELSE NoResult]
  /\ UNCHANGED <<nextId, ncalls, pre, logged>>
  /\ UNCHANGED <<input, output, pageTool>>

\* mark the to-do checked; return at once when the page has no Activity Log section
CtPatch(p) ==
  /\ inv[p].pc = "listed" /\ inv[p].op = "complete-todo"
  /\ \E ok \in {b \in BOOLEAN : b => IndexOfId(page, inv[p].target) # 0},
        plan \in { CtPlan(inv[p].blocks, CtLine(p), nextId) } :
           /\ page' = IF ok THEN PatchChecked(page, inv[p].target) ELSE page
           /\ calls' = [calls EXCEPT ![p] = Append(@, Call("patch", inv[p].target, ok))]
           /\ inv' = [inv EXCEPT ![p].pc = IF ok /\ plan.issue THEN "patched" ELSE "idle"]
           /\ result' = [result EXCEPT ![p] =
                           IF ~ok THEN Threw
                           ELSE IF plan.issue THEN NoResult
                           ELSE Success]
  /\ UNCHANGED <<nextId, ncalls, pre, logged>>
  /\ UNCHANGED <<input, output, pageTool>>

\* append the completion entry to the Activity Log section, return
CtAppend(p) ==
  /\ inv[p].pc = "patched" /\ inv[p].op = "complete-todo"
  /\ \E plan \in { CtPlan(inv[p].blocks, CtLine(p), nextId) } :
         \E ok \in {b \in BOOLEAN : b => PlanAccepted(page, plan)} :
           /\ page' = IF ok THEN ApplyPlan(page, plan) ELSE page
           /\ nextId' = IF ok THEN nextId + PlanNewIds(plan) ELSE nextId
           /\ logged' = IF ok THEN Append(logged, CtLine(p)) ELSE logged
           /\ result' = [result EXCEPT ![p] =
                           IF ok THEN [Success EXCEPT !.activity_logged = TRUE] ELSE Threw]
           /\ calls' = [calls EXCEPT ![p] =
                          Append(@, Call("append", IF plan.parent # NoId THEN plan.parent ELSE NoId, ok))]
  /\ inv' = [inv EXCEPT ![p].pc = "idle"]
  /\ UNCHANGED <<ncalls, pre>>
  /\ UNCHANGED <<input, output, pageTool>>

\* ------------------------------------------- complete-checklist-item handler
\* The append request the legacy handler builds: a new date toggle goes right
\* after the section header.
CciPlan(blocks, line, newId) ==
  LET activityLogSection == findSectionBlock(blocks, Chars["Activity Log"])
  IN  IF activityLogSection # 0
      THEN LET sectionBlocks == getSectionBlocks(blocks, activityLogSection)
               todayToggleId == todayToggleLoop(sectionBlocks, 1)
           IN  IF todayToggleId # NoId
               THEN [issue |-> TRUE, parent |-> todayToggleId, after |-> NoId,
                     children |-> <<line>>, section_created |-> FALSE]
               ELSE [issue |-> TRUE, parent |-> NoId,
                     after |-> blocks[activityLogSection].id,
                     children |-> << DateToggle(newId, line) >>, section_created |-> FALSE]
      ELSE [issue |-> FALSE, parent |-> NoId, after |-> NoId, children |-> <<>>,
            section_created |-> FALSE]

CciList(p) ==
  /\ inv[p].pc = "idle"
  /\ \E item_text \in ItemTexts, ok \in BOOLEAN :
       LET blocks == ListChildren(page)
           target == targetBlockLoop(blocks, item_text, 1)
       IN  /\ inv' = [inv EXCEPT ![p] =
                        IF ok /\ target # NoId
                        THEN [IdleInv EXCEPT !.pc = "listed", !.op = "complete-checklist-item",
                                             !.arg = item_text, !.blocks = blocks,
                                             !.target = target]
                        ELSE [IdleInv EXCEPT !.op = "complete-checklist-item",
                                             !.arg = item_text,
                                             !.blocks = IF ok THEN blocks ELSE <<>>]]
           /\ result' = [result EXCEPT ![p] =
                           IF ~ok THEN Threw
                           ELSE IF target = NoId THEN Failure("No checklist item found")
                           ELSE NoResult]
           /\ calls' = [calls EXCEPT ![p] = << Call("list", NoId, ok) >>]
  /\ ncalls' = ncalls + 1
  /\ pre' = page
  /\ UNCHANGED <<page, nextId, logged>>
  /\ UNCHANGED <<input, output, pageTool>>

CciPatch(p) ==
  /\ inv[p].pc = "listed" /\ inv[p].op = "complete-checklist-item"
  /\ \E ok \in {b \in BOOLEAN : b => IndexOfId(page, inv[p].target) # 0},
        plan \in { CciPlan(inv[p].blocks, CtLine(p), nextId) } :
           /\ page' = IF ok THEN PatchChecked(page, inv[p].target) ELSE page
           /\ calls' = [calls EXCEPT ![p] = Append(@, Call("patch", inv[p].target, ok))]
           /\ inv' = [inv EXCEPT ![p].pc = IF ok /\ plan.issue THEN "patched" ELSE "idle"]
           /\ result' = [result EXCEPT ![p] =
                           IF ~ok THEN Threw
                           ELSE IF plan.issue THEN NoResult
                           ELSE Success]
  /\ UNCHANGED <<nextId, ncalls, pre, logged>>
  /\ UNCHANGED <<input, output, pageTool>>

CciAppend(p) ==
  /\ inv[p].pc = "patched" /\ inv[p].op = "complete-checklist-item"
  /\ \E plan \in { CciPlan(inv[p].blocks, CtLine(p), nextId) } :
         \E ok \in {b \in BOOLEAN : b => PlanAccepted(page, plan)} :
           /\ page' = IF ok THEN ApplyPlan(page, plan) ELSE page
           /\ nextId' = IF ok THEN nextId + PlanNewIds(plan) ELSE nextId
           /\ logged' = IF ok THEN Append(logged, CtLine(p)) ELSE logged
           /\ result' = [result EXCEPT ![p] =
                           IF ok THEN [Success EXCEPT !.activity_logged = TRUE] ELSE Threw]
           /\ calls' = [calls EXCEPT ![p] =
                          Append(@, Call("append", IF plan.parent # NoId THEN plan.parent ELSE NoId, ok))]
  /\ inv' = [inv EXCEPT ![p].pc = "idle"]
  /\ UNCHANGED <<ncalls, pre>>
  /\ UNCHANGED <<input, output, pageTool>>

\* ------------------------------------------------------------------ append
Contents == {" \n ", "h2: New\n\n- x"}
SectionNames == {"Activity Log", "zzz"}

\* ids the store gives to freshly inserted blocks
Fresh(children, firstId) == [i \in 1..Len(children) |-> [children[i] EXCEPT !.id = firstId + i - 1]]

\* notion-blocks append to the page: early returns, else one append call
AppendContent(p) ==
  /\ inv[p].pc = "idle"
  /\ \E content \in Contents \cup {""}, ok \in BOOLEAN :
       LET children == parseStructuredContent(Chars[content])
           called   == content # "" /\ Len(children) > 0
       IN  /\ (~called => ok)
           /\ inv' = [inv EXCEPT ![p] = [IdleInv EXCEPT !.op = "append", !.content = content]]
           /\ page' = IF called /\ ok THEN AppendChildren(page, NoId, Fresh(children, nextId))
                      ELSE page
           /\ nextId' = IF called /\ ok THEN nextId + Len(children) ELSE nextId
           /\ result' = [result EXCEPT ![p] =
                           IF content = "" THEN Failure("content required")
                           ELSE IF Len(children) = 0 THEN Failure("No content to append")
                           ELSE IF ok THEN [Success EXCEPT !.inserted_count = Len(children)]
                           ELSE Threw]
           /\ calls' = [calls EXCEPT ![p] = IF called THEN << Call("append", NoId, ok) >> ELSE <<>>]
  /\ ncalls' = ncalls + 1
  /\ pre' = page
  /\ UNCHANGED logged
  /\ UNCHANGED <<input, output, pageTool>>

\* ------------------------------------------------------------------ delete
RECURSIVE deleteScan(_, _, _, _, _)
\* the section_name loop of delete: the ids it collects
deleteScan(blocks, section_name, i, inSection, idsToDelete) ==
  IF i > Len(blocks) THEN idsToDelete
  ELSE LET block == blocks[i]
           text  == getBlockText(block)
       IN  IF Truthy(text) /\ matchesSectionName(text, section_name)
           THEN deleteScan(blocks, section_name, i + 1, TRUE, Append(idsToDelete, block.id))
           ELSE IF inSection /\ isSectionHeader(block) THEN idsToDelete
           ELSE IF inSection
                THEN deleteScan(blocks, section_name, i + 1, inSection, Append(idsToDelete, block.id))
                ELSE deleteScan(blocks, section_name, i + 1, inSection, idsToDelete)

\* list the children and collect the ids to delete
DelList(p) ==
  /\ inv[p].pc = "idle"
  /\ \E section_name \in SectionNames, clear_all \in BOOLEAN, ok \in BOOLEAN :
       LET blocks == ListChildren(page)
           ids    == IF clear_all THEN [i \in 1..Len(blocks) |-> blocks[i].id]
                     ELSE deleteScan(blocks, Chars[section_name], 1, FALSE, <<>>)
       IN  /\ inv' = [inv EXCEPT ![p] =
                        [IdleInv EXCEPT !.pc = IF ok /\ Len(ids) > 0 THEN "deleting" ELSE "idle",
                                        !.op = "delete", !.arg = section_name,
                                        !.content = IF clear_all THEN "clear_all" ELSE "",
                                        !.blocks = IF ok THEN blocks ELSE <<>>,
                                        !.ids = IF ok THEN ids ELSE <<>>]]
           /\ result' = [result EXCEPT ![p] =
                           IF ~ok THEN Threw
                           ELSE IF Len(ids) > 0 THEN NoResult
                           ELSE IF clear_all THEN Success
                           ELSE Failure("Section not found")]
           /\ calls' = [calls EXCEPT ![p] = << Call("list", NoId, ok) >>]
  /\ ncalls' = ncalls + 1
  /\ pre' = page
  /\ UNCHANGED <<page, nextId, logged>>
  /\ UNCHANGED <<input, output, pageTool>>

\* one iteration of the delete loop; a failed deletion is swallowed
DelDelete(p) ==
  /\ inv[p].pc = "deleting" /\ inv[p].op = "delete"
  /\ LET id == inv[p].ids[inv[p].k + 1]
     IN  \E ok \in {b \in BOOLEAN : b => IndexOfId(page, id) # 0} :
           LET deleted == IF ok THEN Append(inv[p].deleted, id) ELSE inv[p].deleted
               last    == inv[p].k + 1 = Len(inv[p].ids)
           IN  /\ page' = IF ok THEN DeleteBlock(page, id) ELSE page
               /\ inv' = [inv EXCEPT ![p].k = @ + 1, ![p].deleted = deleted,
                                     ![p].pc = IF last THEN "idle" ELSE "deleting"]
               /\ result' = [result EXCEPT ![p] =
                               IF last THEN [Success EXCEPT !.deleted_count = Len(deleted)]
                               ELSE NoResult]
               /\ calls' = [calls EXCEPT ![p] = Append(@, Call("delete", id, ok))]
  /\ UNCHANGED <<nextId, ncalls, pre, logged>>
  /\ UNCHANGED <<input, output, pageTool>>

\* --------------------------------------------------------- replace-section
RECURSIVE replaceScan(_, _, _, _, _, _, _)
\* the scan loop of replace-section: the ids to delete and the insertion point
replaceScan(blocks, section_name, i, inSection, insertAfterId, blocksToDelete, previousBlockId) ==
  IF i > Len(blocks) THEN [ids |-> blocksToDelete, after |-> insertAfterId]
  ELSE LET block == blocks[i]
           text  == getBlockText(block)
       IN  IF Truthy(text) /\ matchesSectionName(text, section_name)
           THEN replaceScan(blocks, section_name, i + 1, TRUE, previousBlockId,
                            Append(blocksToDelete, block.id), previousBlockId)
           ELSE IF inSection /\ isSectionHeader(block)
                THEN [ids |-> blocksToDelete, after |-> insertAfterId]
           ELSE IF inSection
                THEN replaceScan(blocks, section_name, i + 1, inSection, insertAfterId,
                                 Append(blocksToDelete, block.id), block.id)
                ELSE replaceScan(blocks, section_name, i + 1, inSection, insertAfterId,
                                 blocksToDelete, block.id)

\* early return: content required
RsNoContent(p) ==
  /\ inv[p].pc = "idle"
  /\ \E section_name \in SectionNames :
       inv' = [inv EXCEPT ![p] = [IdleInv EXCEPT !.op = "replace-section", !.arg = section_name]]
  /\ result' = [result EXCEPT ![p] = Failure("content required")]
  /\ calls' = [calls EXCEPT ![p] = <<>>]
  /\ ncalls' = ncalls + 1
  /\ pre' = page
  /\ UNCHANGED <<page, nextId, logged>>
  /\ UNCHANGED <<input, output, pageTool>>

\* list the children and scan for the section
RsList(p) ==
  /\ inv[p].pc = "idle"
  /\ \E section_name \in SectionNames, content \in Contents, ok \in BOOLEAN :
       LET blocks == ListChildren(page)
           scan   == replaceScan(blocks, Chars[section_name], 1, FALSE, NoId, <<>>, NoId)
       IN  /\ inv' = [inv EXCEPT ![p] =
                        [IdleInv EXCEPT !.pc = IF ok /\ Len(scan.ids) > 0 THEN "deleting" ELSE "idle",
                                        !.op = "replace-section", !.arg = section_name,
                                        !.content = content,
                                        !.blocks = IF ok THEN blocks ELSE <<>>,
                                        !.ids = IF ok THEN scan.ids ELSE <<>>,
                                        !.after = IF ok THEN scan.after ELSE NoId]]
           /\ result' = [result EXCEPT ![p] =
                           IF ~ok THEN Threw
                           ELSE IF Len(scan.ids) > 0 THEN NoResult
                           ELSE Failure("Section not found")]
           /\ calls' = [calls EXCEPT ![p] = << Call("list", NoId, ok) >>]
  /\ ncalls' = ncalls + 1
  /\ pre' = page
  /\ UNCHANGED <<page, nextId, logged>>
  /\ UNCHANGED <<input, output, pageTool>>

\* one iteration of the delete loop; a failed deletion is swallowed
RsDelete(p) ==
  /\ inv[p].pc = "deleting" /\ inv[p].op = "replace-section"
  /\ LET id == inv[p].ids[inv[p].k + 1]
     IN  \E ok \in {b \in BOOLEAN : b => IndexOfId(page, id) # 0} :
           /\ page' = IF ok THEN DeleteBlock(page, id) ELSE page
           /\ inv' = [inv EXCEPT ![p].k = @ + 1,
                                 ![p].pc = IF inv[p].k + 1 = Len(inv[p].ids)
                                           THEN "inserting" ELSE "deleting"]
           /\ calls' = [calls EXCEPT ![p] = Append(@, Call("delete", id, ok))]
  /\ UNCHANGED <<nextId, result, ncalls, pre, logged>>
  /\ UNCHANGED <<input, output, pageTool>>

\* compile the content and issue the append call, whatever was deleted
RsInsert(p) ==
  /\ inv[p].pc = "inserting" /\ inv[p].op = "replace-section"
  /\ LET children      == parseStructuredContent(Chars[inv[p].content])
         insertAfterId == inv[p].after
     IN  \E ok \in {b \in BOOLEAN : b => (insertAfterId = NoId \/ IndexOfId(page, insertAfterId) # 0)} :
           /\ page' = IF ok THEN AppendChildren(page, insertAfterId, Fresh(children, nextId))
                      ELSE page
           /\ nextId' = IF ok THEN nextId + Len(children) ELSE nextId
           /\ result' = [result EXCEPT ![p] =
                           IF ok THEN [Success EXCEPT !.deleted_count = Len(inv[p].ids),
                                                      !.inserted_count = Len(children)]
                           ELSE Threw]
           /\ calls' = [calls EXCEPT ![p] = Append(@, Call("append", NoId, ok))]
  /\ inv' = [inv EXCEPT ![p].pc = "idle"]
  /\ UNCHANGED <<ncalls, pre, logged>>
  /\ UNCHANGED <<input, output, pageTool>>

\* ---------------------------------------------- replace-page-section handler
RECURSIVE handlerScan(_, _, _, _, _, _, _, _)
\* the scan loop of the handler; sectionFound tells a lookup miss
handlerScan(blocks, section_name, i, inSection, sectionFound, insertAfterId, blocksToDelete, previousBlockId) ==
  IF i > Len(blocks)
  THEN [ids |-> blocksToDelete, after |-> insertAfterId, found |-> sectionFound]
  ELSE LET block == blocks[i]
           text  == getBlockText(block)
       IN  IF Truthy(text) /\ matchesSectionName(text, section_name)
           THEN handlerScan(blocks, section_name, i + 1, TRUE, TRUE, previousBlockId,
                            Append(blocksToDelete, block.id), previousBlockId)
           ELSE IF inSection /\ isSectionHeader(block)
                THEN [ids |-> blocksToDelete, after |-> insertAfterId, found |-> sectionFound]
           ELSE IF inSection
                THEN handlerScan(blocks, section_name, i + 1, inSection, sectionFound,
                                 insertAfterId, Append(blocksToDelete, block.id), block.id)
                ELSE handlerScan(blocks, section_name, i + 1, inSection, sectionFound,
                                 insertAfterId, blocksToDelete, block.id)

RpsList(p) ==
  /\ inv[p].pc = "idle"
  /\ \E section_name \in SectionNames, new_content \in Contents, ok \in BOOLEAN :
       LET blocks == ListChildren(page)
           scan   == handlerScan(blocks, Chars[section_name], 1, FALSE, FALSE, NoId, <<>>, NoId)
       IN  /\ inv' = [inv EXCEPT ![p] =
                        [IdleInv EXCEPT !.pc = IF ok /\ scan.found THEN "deleting" ELSE "idle",
                                        !.op = "replace-page-section", !.arg = section_name,
                                        !.content = new_content,
                                        !.blocks = IF ok THEN blocks ELSE <<>>,
                                        !.ids = IF ok THEN scan.ids ELSE <<>>,
                                        !.after = IF ok THEN scan.after ELSE NoId]]
           /\ result' = [result EXCEPT ![p] =
                           IF ~ok THEN Threw
                           ELSE IF scan.found THEN NoResult
                           ELSE Failure("Section not found on page")]
           /\ calls' = [calls EXCEPT ![p] = << Call("list", NoId, ok) >>]
  /\ ncalls' = ncalls + 1
  /\ pre' = page
  /\ UNCHANGED <<page, nextId, logged>>
  /\ UNCHANGED <<input, output, pageTool>>

RpsDelete(p) ==
  /\ inv[p].pc = "deleting" /\ inv[p].op = "replace-page-section"
  /\ LET id == inv[p].ids[inv[p].k + 1]
     IN  \E ok \in {b \in BOOLEAN : b => IndexOfId(page, id) # 0} :
           /\ page' = IF ok THEN DeleteBlock(page, id) ELSE page
           /\ inv' = [inv EXCEPT ![p].k = @ + 1,
                                 ![p].deleted = IF ok THEN Append(@, id) ELSE @,
                                 ![p].pc = IF inv[p].k + 1 = Len(inv[p].ids)
                                           THEN "inserting" ELSE "deleting"]
           /\ calls' = [calls EXCEPT ![p] = Append(@, Call("delete", id, ok))]
  /\ UNCHANGED <<nextId, result, ncalls, pre, logged>>
  /\ UNCHANGED <<input, output, pageTool>>

\* compile the content; return an error when nothing compiled, else append
RpsInsert(p) ==
  /\ inv[p].pc = "inserting" /\ inv[p].op = "replace-page-section"
  /\ LET children      == handlerParse(Chars[inv[p].content])
         insertAfterId == inv[p].after
         called        == Len(children) > 0
     IN  \E ok \in {b \in BOOLEAN : b => (insertAfterId = NoId \/ IndexOfId(page, insertAfterId) # 0)} :
           /\ (~called => ok)
           /\ page' = IF called /\ ok
                      THEN AppendChildren(page, insertAfterId, Fresh(children, nextId))
                      ELSE page
           /\ nextId' = IF called /\ ok THEN nextId + Len(children) ELSE nextId
           /\ result' = [result EXCEPT ![p] =
                           IF ~called
                           THEN [Failure("No content to insert") EXCEPT !.deleted_count = Len(inv[p].deleted)]
                           ELSE IF ok THEN [Success EXCEPT !.deleted_count = Len(inv[p].deleted),
                                                           !.inserted_count = Len(children)]
                           ELSE Threw]
           /\ calls' = [calls EXCEPT ![p] = IF called THEN Append(@, Call("append", NoId, ok)) ELSE @]
  /\ inv' = [inv EXCEPT ![p].pc = "idle"]
  /\ UNCHANGED <<ncalls, pre, logged>>
  /\ UNCHANGED <<input, output, pageTool>>

\* ---------------------------------------------------------- initial pages
\* block kinds a page is made of before the first invocation (ids are given
\* by position)
LogPalette ==
  { Blk(0, "paragraph", << Span(Chars["Notes"], FALSE) >>),
    Blk(0, "heading_2", << Span(Chars["Activity Log"], FALSE) >>),
    Blk(0, "heading_3", << Span(Chars["Notes"], FALSE) >>),
    Blk(0, "button", <<>>),
    Blk(0, "toggle", dateMentionRichText(dateStr)),
    Blk(0, "to_do", << Span(Chars["Buy milk"], FALSE) >>),
    Blk(0, "to_do", << Span(Chars["Call Bob"], FALSE) >>) }

WithIds(tpl) == [i \in 1..Len(tpl) |-> [tpl[i] EXCEPT !.id = i]]

SeqsUpTo(S, n) == UNION { [1..k -> S] : k \in 0..n }

IsTodayToggle(b) ==
  /\ b.type = "toggle"
  /\ \/ hasDateMention(b.rich_text, dateStr)
     \/ richTextToPlain(b.rich_text) = dateStr

TodayToggles(pg) == { i \in 1..Len(pg) : IsTodayToggle(pg[i]) }

\* a page that sequential runs of the tool leave has at most one container per day
LogPages ==
  { WithIds(tpl) : tpl \in { t \in SeqsUpTo(LogPalette, MaxBlocks) :
                               Cardinality(TodayToggles(t)) <= 1 } }

\* long pages: PageSize - 1 or PageSize plain paragraphs, then a short tail
Filler(n) == [i \in 1..n |-> Blk(0, "paragraph", << Span(Chars["Notes"], FALSE) >>)]

LongPages ==
  { WithIds(Filler(n) \o tpl) : n \in {PageSize - 1, PageSize},
                                 tpl \in { t \in SeqsUpTo(LogPalette, MaxTail) :
                                             Cardinality(TodayToggles(t)) <= 1 } }

\* no invocation has run
InitSlots ==
  /\ nextId = Len(page) + 1
  /\ inv = [p \in Procs |-> IdleInv]
  /\ result = [p \in Procs |-> NoResult]
  /\ calls = [p \in Procs |-> <<>>]
  /\ ncalls = 0
  /\ pre = page
  /\ logged = <<>>

\* no database page is involved
NoRemote == [parent |-> "none", schema |-> <<>>, properties |-> <<>>, created |-> <<>>]

NoPrev == [op |-> "none", relations |-> <<>>, status |-> "none"]

InitStore ==
  /\ InitSlots
  /\ remote = NoRemote
  /\ prev = NoPrev

InitCommon ==
  /\ InitStore
  /\ input = <<>>
  /\ output = <<>>

\* a pure function is applied to an argument: no page, no invocation
InitPure ==
  /\ page = <<>>
  /\ InitStore
  /\ output = <<>>

store == <<page, nextId, inv, result, calls, ncalls, pre, logged, remote, prev>>

InitLog ==
  /\ page \in LogPages \cup LongPages
  /\ InitCommon

NextLog ==
  \/ (ncalls < MaxCalls /\ AalNoEntry(1))
  \/ (ncalls < MaxCalls /\ AalList(1))
  \/ AalAppend(1)
  \/ (ncalls < MaxCalls /\ CtNoItem(1))
  \/ (ncalls < MaxCalls /\ CtList(1))
  \/ CtPatch(1)
  \/ CtAppend(1)

\* sequential invocations of add-activity-log and complete-todo on one page
SpecLog == InitLog /\ [][NextLog]_vars

InitLong ==
  /\ page \in { pg \in LongPages : Len(pg) > PageSize }
  /\ InitCommon

NextLong ==
  \/ (ncalls < MaxCalls /\ AalList(1))
  \/ AalAppend(1)

\* sequential invocations of add-activity-log on a page that outgrows one
\* list-children response
SpecLong == InitLong /\ [][NextLong]_vars

Init ==
  /\ page \in LogPages
  /\ InitCommon

Next ==
  \/ (ncalls = 0 /\ AalNoEntry(1))
  \/ (ncalls = 0 /\ AalList(1))
  \/ AalAppend(1)
  \/ (ncalls = 0 /\ CtNoItem(1))
  \/ (ncalls = 0 /\ CtList(1))
  \/ CtPatch(1)
  \/ CtAppend(1)
  \/ (ncalls = 0 /\ CciList(1))
  \/ CciPatch(1)
  \/ CciAppend(1)
  \/ (ncalls = 0 /\ AppendContent(1))
  \/ (ncalls = 0 /\ DelList(1))
  \/ DelDelete(1)
  \/ (ncalls = 0 /\ RsNoContent(1))
  \/ (ncalls = 0 /\ RsList(1))
  \/ RsDelete(1)
  \/ RsInsert(1)
  \/ (ncalls = 0 /\ RpsList(1))
  \/ RpsDelete(1)
  \/ RpsInsert(1)

\* one invocation of any one tool on a page
Spec == Init /\ [][Next]_vars

\* add-activity-log invocations running concurrently: every await is a point
\* where the other invocation may run
InitRace ==
  /\ page \in { pg \in LogPages : Len(pg) < MaxBlocks }
  /\ InitCommon

\* each slot runs one invocation
NextRace ==
  \E p \in Procs :
    \/ (result[p].status = "none" /\ AalList(p))
    \/ AalAppend(p)

SpecRace == InitRace /\ [][NextRace]_vars

\* ------------------------------------------------------ rich-text compiler
\* A regular expression of textToRichText is a sequence of elements: a literal,
\* or a group [^...]+ (a non-empty run of characters outside a set).  Every
\* group is followed by a literal that starts with an excluded character, so
\* the greedy run is the only way the expression can match.
\* the backquote character (U+0060), which a TLA+ string cannot hold
Backquote == "U+0060"

Lit(l) == [kind |-> "lit", lit |-> l, not |-> {}]
Run(ex) == [kind |-> "run", lit |-> <<>>, not |-> ex]

patterns ==
  << [type |-> "page_anchor",
      elems |-> << Lit(<<"@","p","a","g","e","[">>), Run({"]"}), Lit(<<"]","(">>),
                   Run({")","#"}), Lit(<<"#">>), Run({")"}), Lit(<<")">>) >>],
     [type |-> "page",
      elems |-> << Lit(<<"@","p","a","g","e","[">>), Run({"]"}), Lit(<<"]","(">>),
                   Run({")"}), Lit(<<")">>) >>],
     [type |-> "database",
      elems |-> << Lit(<<"@","d","b","[">>), Run({"]"}), Lit(<<"]","(">>),
                   Run({")"}), Lit(<<")">>) >>],
     [type |-> "user",
      elems |-> << Lit(<<"@","u","s","e","r","[">>), Run({"]"}), Lit(<<"]","(">>),
                   Run({")"}), Lit(<<")">>) >>],
     [type |-> "link",
      elems |-> << Lit(<<"[">>), Run({"]"}), Lit(<<"]","(">>), Run({")"}), Lit(<<")">>) >>],
     [type |-> "bold",
      elems |-> << Lit(<<"*","*">>), Run({"*"}), Lit(<<"*","*">>) >>],
     [type |-> "italic",
      elems |-> << Lit(<<"*">>), Run({"*"}), Lit(<<"*">>) >>],
     [type |-> "strikethrough",
      elems |-> << Lit(<<"~","~">>), Run({"~"}), Lit(<<"~","~">>) >>],
     [type |-> "code",
      elems |-> << Lit(<<Backquote>>), Run({Backquote}), Lit(<<Backquote>>) >>] >>

\* position after element e matched at pos (1-based), 0 when it does not match
ElemEnd(e, s, pos) ==
  IF e.kind = "lit"
  THEN IF pos + Len(e.lit) - 1 <= Len(s) /\ SubSeq(s, pos, pos + Len(e.lit) - 1) = e.lit
       THEN pos + Len(e.lit) ELSE 0
  ELSE LET stops == { j \in pos..Len(s) : s[j] \in e.not }
           stop  == IF stops = {} THEN Len(s) + 1 ELSE First(stops)
       IN  IF stop > pos THEN stop ELSE 0

RECURSIVE MatchElems(_, _, _, _)
\* positions after each of the elements k.. matched from pos; ends with 0 on failure
MatchElems(elems, s, pos, k) ==
  IF k > Len(elems) THEN <<>>
  ELSE LET end == ElemEnd(elems[k], s, pos)
       IN  IF end = 0 THEN <<0>> ELSE <<end>> \o MatchElems(elems, s, end, k + 1)

\* the match of one pattern that starts at position i, with the lookarounds
\* (?<!\*) and (?!\*) of the italic pattern
MatchAt(pat, s, i) ==
  LET ends == MatchElems(pat.elems, s, i, 1)
      ok   == Len(ends) = Len(pat.elems) /\ ends[Len(ends)] # 0
      end  == IF ok THEN ends[Len(ends)] ELSE 0
      look == pat.type = "italic" =>
                /\ (i = 1 \/ s[i - 1] # "*")
                /\ (end > Len(s) \/ s[end] # "*")
      grp(e) == IF e <= Len(ends) THEN SubSeq(s, ends[e - 1], ends[e] - 1) ELSE <<>>
  IN  IF ok /\ look
      THEN [ok |-> TRUE, type |-> pat.type, start |-> i, end |-> end, cstart |-> ends[1],
            content |-> grp(2), g2 |-> grp(4), g3 |-> grp(6)]
      ELSE [ok |-> FALSE, type |-> pat.type, start |-> i, end |-> 0, cstart |-> 0,
            content |-> <<>>, g2 |-> <<>>, g3 |-> <<>>]

\* a segment of the rich_text array; a mention segment has no text field
TextSeg(content) ==
  [type |-> "text", content |-> content, annotations |-> {}, link |-> <<>>,
   mention |-> "", id |-> <<>>]

MentionSeg(kind, id) ==
  [type |-> "mention", content |-> <<>>, annotations |-> {}, link |-> <<>>,
   mention |-> kind, id |-> id]

\* .replace(/-/g, '')
stripDashes(x) == SelectSeq(x, LAMBDA c : c # "-")

notionUrl(mentionId, blockAnchor) ==
  <<"h","t","t","p","s",":","/","/","w","w","w",".","n","o","t","i","o","n",".","s","o","/">>
    \o stripDashes(mentionId) \o <<"#">> \o stripDashes(blockAnchor)

\* the segment pushed for one kept span
spanSegment(span) ==
  CASE span.type = "page_anchor" ->
         [TextSeg(span.content) EXCEPT !.link = notionUrl(span.g2, span.g3)]
    [] span.type = "page"     -> MentionSeg("page", span.g2)
    [] span.type = "database" -> MentionSeg("database", span.g2)
    [] span.type = "user"     -> MentionSeg("user", span.g2)
    [] span.type = "link"     -> [TextSeg(span.content) EXCEPT !.link = span.g2]
    [] OTHER -> [TextSeg(span.content) EXCEPT !.annotations = {span.type}]

RECURSIVE execLoop(_, _, _)
\* while ((match = pattern.exec(content)) !== null): the leftmost match at or
\* after lastIndex, then on from its end
execLoop(pat, s, lastIndex) ==
  LET at == { i \in lastIndex..Len(s) : MatchAt(pat, s, i).ok }
  IN  IF at = {} THEN <<>>
      ELSE LET m == MatchAt(pat, s, First(at))
           IN  <<m>> \o execLoop(pat, s, m.end)

RECURSIVE allSpans(_, _)
\* spans pushed by the loop over the patterns, in pattern order
allSpans(s, k) ==
  IF k > Len(patterns) THEN <<>>
  ELSE execLoop(patterns[k], s, 1) \o allSpans(s, k + 1)

\* one step of the stable sort: x goes after every span that starts no later
InsertByStart(sorted, x) ==
  LET before == { i \in 1..Len(sorted) : sorted[i].start <= x.start }
      n      == IF before = {} THEN 0 ELSE CHOOSE i \in before : \A j \in before : j <= i
  IN  SubSeq(sorted, 1, n) \o <<x>> \o SubSeq(sorted, n + 1, Len(sorted))

\* variant: the spans stay in the order the patterns pushed them
sortByStart_Unsorted(spans, k) == SubSeq(spans, 1, k)

RECURSIVE sortByStart(_, _)
\* spans.sort((a, b) => a.start - b.start)
sortByStart(spans, k) ==
  IF k = 0 THEN <<>> ELSE InsertByStart(sortByStart(spans, k - 1), spans[k])

\* variant: no span is filtered out
filterSpans_KeepAll(spans, k, lastEnd) == SubSeq(spans, k, Len(spans))

RECURSIVE filterSpans(_, _, _)
\* the overlap filter: a span is kept when it starts at or after lastEnd
filterSpans(spans, k, lastEnd) ==
  IF k > Len(spans) THEN <<>>
  ELSE IF spans[k].start >= lastEnd
       THEN <<spans[k]>> \o filterSpans(spans, k + 1, spans[k].end)
       ELSE filterSpans(spans, k + 1, lastEnd)

\* variant: the text between two spans is not pushed
RECURSIVE assemble_NoGap(_, _, _, _)
assemble_NoGap(s, spans, k, currentPos) ==
  IF k > Len(spans)
  THEN IF currentPos <= Len(s) THEN << TextSeg(SubSeq(s, currentPos, Len(s))) >> ELSE <<>>
  ELSE <<spanSegment(spans[k])>> \o assemble_NoGap(s, spans, k + 1, spans[k].end)

RECURSIVE assemble(_, _, _, _)
\* the loop over filteredSpans and the remaining text after it; currentPos is
\* the 1-based position of the next character not yet emitted
assemble(s, spans, k, currentPos) ==
  IF k > Len(spans)
  THEN IF currentPos <= Len(s) /\ SubSeq(s, currentPos, Len(s)) # <<>>
       THEN << TextSeg(SubSeq(s, currentPos, Len(s))) >> ELSE <<>>
  ELSE LET span == spans[k]
           gap  == IF span.start > currentPos /\ SubSeq(s, currentPos, span.start - 1) # <<>>
                   THEN << TextSeg(SubSeq(s, currentPos, span.start - 1)) >> ELSE <<>>
       IN  gap \o <<spanSegment(span)>> \o assemble(s, spans, k + 1, span.end)

filteredSpans(content) ==
  LET spans == allSpans(content, 1)
  IN  filterSpans(sortByStart(spans, Len(spans)), 1, 1)

\* variant: the fallback for an empty segment list is lost
textToRichText_NoFallback(content) == assemble(content, filteredSpans(content), 1, 1)

textToRichText(content) ==
  LET segments == assemble(content, filteredSpans(content), 1, 1)
  IN  IF Len(segments) = 0 THEN << TextSeg(content) >> ELSE segments

\* inline markup a caller writes, piece by piece
TextPieces ==
  { <<"a">>, <<"*">>, <<"*","*">>, <<"~","~">>, <<Backquote>>, <<"[">>,
    <<"]","(","u",")">>, <<"]","(","u","-","1","#","k","-","2",")">>,
    <<"@","p","a","g","e","[">>, <<"@","d","b","[">>, <<"@","u","s","e","r","[">> }

\* plain text before and after the markup
Affixes == { <<>>, <<"b","-","c">> }

RECURSIVE Flatten(_)
Flatten(ss) == IF ss = <<>> THEN <<>> ELSE ss[1] \o Flatten(Tail(ss))

TextInputs ==
  { before \o Flatten(ps) \o after :
      before \in Affixes, after \in Affixes, ps \in SeqsUpTo(TextPieces, MaxPieces) }

InitText ==
  /\ input \in TextInputs
  /\ InitPure

CompileText ==
  /\ output = <<>>
  /\ output' = << textToRichText(input) >>
  /\ UNCHANGED <<store, input>>

\* textToRichText applied to one string
SpecText == InitText /\ [][CompileText]_vars

\* whole marked-up phrases and single delimiters: put side by side they nest
\* one pattern inside another
MarkupTokens ==
  { <<"@","p","a","g","e","[","a","]","(","u",")">>,
    <<"@","d","b","[","a","]","(","u",")">>,
    <<"@","u","s","e","r","[","a","]","(","u",")">>,
    <<"@","p","a","g","e","[","a","]","(","u","-","1","#","k","-","2",")">>,
    <<"[","a","]","(","u",")">>, <<"*","*","a","*","*">>, <<Backquote,"a",Backquote>>,
    <<"*","*">>, <<"*">>, <<"[">>, <<"]","(","u",")">> }

MarkupInputs == { Flatten(ts) : ts \in SeqsUpTo(MarkupTokens, MaxPieces) }

InitMarkup ==
  /\ input \in MarkupInputs
  /\ InitPure

CompileMarkup ==
  /\ output = <<>>
  /\ output' = << textToRichText(input) >>
  /\ UNCHANGED <<store, input>>

\* textToRichText applied to one string of nested markup
SpecMarkup == InitMarkup /\ [][CompileMarkup]_vars

\* ------------------------------------------------- block compiler inputs
\* lines of a document without pipe-delimited rows: one line or more per rule
\* of parseStructuredContent, a blank line, lines that hold the prefix of one
\* rule after the prefix of another, the optional table prefix and a line that
\* begins with a pipe without ending with one
BlockLines ==
  { <<" ">>, <<"-","-","-">>,
    <<"h","1",":","A">>, <<"h","2",":"," ","-"," ","a">>, <<"h","3",":","A">>,
    <<"-"," ","[","x","]"," ","a">>, <<"1","2","."," ",">"," ","a">>,
    <<"[","x","]"," ","a">>, <<"[","X","]"," ","a">>, <<"[","]"," ","a">>,
    <<">"," ","a">>, <<"!",">"," ","a">>,
    <<"c","a","l","l","o","u","t",":"," ","a">>,
    <<"c","a","l","l","o","u","t","[","i",",","c","]",":"," ","a">>,
    <<" ","a"," ">>,
    <<Backquote,Backquote,Backquote,"j","s">>, <<Backquote,Backquote,Backquote>>,
    <<"t","a","b","l","e">>, <<"|"," ","x">> }

RECURSIVE JoinLines(_)
\* the document whose lines are ls: lines.join('\n')
JoinLines(ls) ==
  IF Len(ls) <= 1 THEN (IF ls = <<>> THEN <<>> ELSE ls[1])
  ELSE ls[1] \o <<"\n">> \o JoinLines(Tail(ls))

BlockInputs == { JoinLines(ls) : ls \in SeqsUpTo(BlockLines, MaxLines) }

InitBlocks ==
  /\ input \in BlockInputs
  /\ InitPure

CompileBlocks ==
  /\ output = <<>>
  /\ output' = << parseStructuredContent(input) >>
  /\ UNCHANGED <<store, input>>

\* parseStructuredContent applied to one document
SpecBlocks == InitBlocks /\ [][CompileBlocks]_vars

\* ------------------------------------------------- table compiler inputs
\* lines of a document with tables: rows of one and of two cells, a separator
\* row, a line that begins with a pipe without ending with one, the optional
\* table prefix and a line of plain text
TableLines ==
  { <<"|"," ","a"," ","|">>, <<"|"," ","a"," ","|"," ","b"," ","|">>,
    <<"|","-","-","-","|">>, <<"|"," ","x">>,
    <<"t","a","b","l","e",":">>, <<"a">> }

TableInputs == { JoinLines(ls) : ls \in SeqsUpTo(TableLines, MaxLines + 1) }

InitTable ==
  /\ input \in TableInputs
  /\ InitPure

CompileTable ==
  /\ output = <<>>
  /\ output' = << parseStructuredContent(input) >>
  /\ UNCHANGED <<store, input>>

\* parseStructuredContent applied to one document with table lines
SpecTable == InitTable /\ [][CompileTable]_vars

\* -------------------------------------------------- section locator inputs
\* words, separators and punctuation a block's text is made of
NamePieces ==
  { <<"T","o">>, <<"D","o">>, <<"-">>, <<" ">>, <<"_">>, <<"!">>,
    <<"T","O","D","O","S">>, <<"C","h","e","c","k","l","i","s","t">>, <<"L","o","g">> }

\* section names a caller passes
MatchNames ==
  { <<"t","o"," ","d","o">>, <<"T","o"," ","D","o">>, <<"T","o","-","D","o">>,
    <<"A","c","t","i","v","i","t","y"," ","L","o","g">> }

MatchInputs ==
  { [text |-> Flatten(ps), sectionName |-> n] :
      ps \in SeqsUpTo(NamePieces, MaxPieces), n \in MatchNames }

InitMatch ==
  /\ input \in MatchInputs
  /\ InitPure

MatchName ==
  /\ output = <<>>
  /\ output' = << matchesSectionName(input.text, input.sectionName) >>
  /\ UNCHANGED <<store, input>>

\* matchesSectionName applied to one text and one section name
SpecMatch == InitMatch /\ [][MatchName]_vars

ToDoText == <<"T","o"," ","D","o">>

\* blocks a listed page holds: each kind getBlockText knows, with and without
\* bold first span, and kinds it does not know
LocatorBlocks ==
  { Blk(NoId, "heading_1", << Span(ToDoText, FALSE) >>),
    Blk(NoId, "heading_2", << Span(ToDoText, FALSE) >>),
    Blk(NoId, "heading_3", << Span(ToDoText, FALSE) >>),
    Blk(NoId, "callout", << Span(ToDoText, TRUE) >>),
    Blk(NoId, "callout", << Span(<<"N","o","t","e","s">>, TRUE) >>),
    Blk(NoId, "callout", << Span(ToDoText, FALSE) >>),
    Blk(NoId, "paragraph", << Span(ToDoText, TRUE) >>),
    Blk(NoId, "paragraph", << Span(ToDoText, FALSE) >>),
    Blk(NoId, "paragraph", << Span(<<"T","o"," ">>, FALSE), Span(<<"D","o">>, TRUE) >>),
    Blk(NoId, "toggle", << Span(ToDoText, FALSE) >>),
    Blk(NoId, "bulleted_list_item", << Span(ToDoText, TRUE) >>) }

LocateInputs ==
  { [blocks |-> bs, sectionName |-> n] :
      bs \in SeqsUpTo(LocatorBlocks, MaxBlocks),
      n \in { <<"t","o"," ","d","o">>, <<"N","o","t","e","s">> } }

InitLocate ==
  /\ input \in LocateInputs
  /\ InitPure

Locate ==
  /\ output = <<>>
  /\ output' = << findSectionBlock(input.blocks, input.sectionName) >>
  /\ UNCHANGED <<store, input>>

\* findSectionBlock applied to one list of blocks and one section name
SpecLocate == InitLocate /\ [][Locate]_vars

\* blocks of a listed page around a section header: each kind isSectionHeader
\* tests, with bold on the first span, on a later span or on none, and kinds
\* it does not test
RunBlocks ==
  { Blk(NoId, "heading_2", << Span(ToDoText, FALSE) >>),
    Blk(NoId, "callout", << Span(ToDoText, TRUE) >>),
    Blk(NoId, "callout", << Span(ToDoText, FALSE) >>),
    Blk(NoId, "callout", << Span(<<"T","o"," ">>, FALSE), Span(<<"D","o">>, TRUE) >>),
    Blk(NoId, "paragraph", << Span(ToDoText, TRUE) >>),
    Blk(NoId, "paragraph", << Span(ToDoText, FALSE) >>),
    Blk(NoId, "paragraph", << Span(<<"T","o"," ">>, FALSE), Span(<<"D","o">>, TRUE) >>),
    Blk(NoId, "toggle", << Span(ToDoText, FALSE) >>),
    Blk(NoId, "to_do", << Span(ToDoText, FALSE) >>) }

RunInputs ==
  { x \in [blocks : SeqsUpTo(RunBlocks, MaxBlocks), sectionIndex : 1..MaxBlocks] :
      x.sectionIndex <= Len(x.blocks) }

InitRun ==
  /\ input \in RunInputs
  /\ InitPure

SectionRun ==
  /\ output = <<>>
  /\ output' = << getSectionBlocks(input.blocks, input.sectionIndex) >>
  /\ UNCHANGED <<store, input>>

\* getSectionBlocks applied to one list of blocks and the index of a header
SpecRun == InitRun /\ [][SectionRun]_vars

\* ---------------------------------------------------------- fuzzy matching
\* A similarity score is the rational number num / den: the code's floating
\* point values 1.0, 0.9, 0.8 and 2 * intersection / (size1 + size2) are kept
\* exact, and compared by cross multiplication.
Score(n, d) == [num |-> n, den |-> d]

ScoreLess(a, b) == a.num * b.den < b.num * a.den

\* getBigrams: the set of the two-character slices of s
getBigrams(s) == { SubSeq(s, i, i + 1) : i \in 1..(Len(s) - 1) }

stringSimilarity(str1, str2) ==
  LET s1 == trim(toLowerCase(str1))
      s2 == trim(toLowerCase(str2))
  IN  IF s1 = s2 THEN Score(1, 1)
      ELSE IF startsWith(s1, s2) \/ startsWith(s2, s1) THEN Score(9, 10)
      ELSE IF includes(s1, s2) \/ includes(s2, s1) THEN Score(8, 10)
      ELSE LET bigrams1 == getBigrams(s1)
               bigrams2 == getBigrams(s2)
               intersection == Cardinality({ bigram \in bigrams1 : bigram \in bigrams2 })
           IN  IF Cardinality(bigrams1) = 0 \/ Cardinality(bigrams2) = 0 THEN Score(0, 1)
               ELSE Score(2 * intersection, Cardinality(bigrams1) + Cardinality(bigrams2))

\* threshold: number = 0.5
DefaultThreshold == Score(1, 2)

RECURSIVE bestLoop_LastWins(_, _, _, _, _)
\* variant: a later option with an equal score replaces the best one
bestLoop_LastWins(input_, options, i, bestMatch, bestScore) ==
  IF i > Len(options) THEN [match |-> bestMatch, score |-> bestScore]
  ELSE LET score == stringSimilarity(input_, options[i])
       IN  IF ~ScoreLess(score, bestScore)
           THEN bestLoop_LastWins(input_, options, i + 1, options[i], score)
           ELSE bestLoop_LastWins(input_, options, i + 1, bestMatch, bestScore)

RECURSIVE bestLoop(_, _, _, _, _)
\* the for loop of findBestMatch from option i on
bestLoop(input_, options, i, bestMatch, bestScore) ==
  IF i > Len(options) THEN [match |-> bestMatch, score |-> bestScore]
  ELSE LET score == stringSimilarity(input_, options[i])
       IN  IF ScoreLess(bestScore, score)
           THEN bestLoop(input_, options, i + 1, options[i], score)
           ELSE bestLoop(input_, options, i + 1, bestMatch, bestScore)

\* the null that findBestMatch returns
NoMatch == [match |-> Null, score |-> Score(0, 1)]

\* variant: the threshold test is lost
findBestMatch_NoThreshold(input_, options, threshold) ==
  LET best == bestLoop(input_, options, 1, Null, Score(0, 1))
  IN  IF best.match # Null /\ best.match # <<>> THEN best ELSE NoMatch

\* bestMatch && bestScore >= threshold ? { match, score } : null; an empty
\* string is falsy like null
findBestMatch(input_, options, threshold) ==
  LET best == bestLoop(input_, options, 1, Null, Score(0, 1))
  IN  IF best.match # Null /\ best.match # <<>> /\ ~ScoreLess(best.score, threshold)
      THEN best ELSE NoMatch

\* Math.round(score * 100)
roundPercent(score) == (200 * score.num + score.den) \div (2 * score.den)

\* A property value a caller supplies: kind is the key of the value object
\* (select, status or multi_select) and names the option names it holds, in
\* order: item.name of every element of a multi_select, the one name of a
\* select or a status.
PropValue(kind, names) == [kind |-> kind, names |-> names]

\* one entry of Object.entries(properties)
Entry(propName, propValue) == [name |-> propName, value |-> propValue]

\* an option of a schema property, and a schema property: groups holds the
\* option_ids of every group of a status property
Option(i, n) == [id |-> i, name |-> n]

SchemaProp(type, options, groups) == [type |-> type, options |-> options, groups |-> groups]

\* options.map(o => o.name)
optionNames(options) == [k \in 1..Len(options) |-> options[k].name]

\* the option names of a status property: the options its groups list, in
\* group order; all its options when that gives none
statusOptions(schemaProp) ==
  LET ids     == Flatten(schemaProp.groups)
      found   == SelectSeq(ids, LAMBDA opt : \E k \in 1..Len(schemaProp.options) :
                                               schemaProp.options[k].id = opt)
      grouped == [j \in 1..Len(found) |->
                    schemaProp.options[First({ k \in 1..Len(schemaProp.options) :
                                                 schemaProp.options[k].id = found[j] })].name]
  IN  IF Len(grouped) = 0 THEN optionNames(schemaProp.options) ELSE grouped

\* the warnings: a substitution with its percentage, a value without a close
\* match, a schema that could not be read
MatchWarning(label, propName, inputName, match) ==
  [label |-> label, prop |-> propName, input |-> inputName,
   match |-> match.match, percent |-> roundPercent(match.score)]

NoMatchWarning(label, propName, inputName) ==
  [label |-> label, prop |-> propName, input |-> inputName, match |-> Null, percent |-> 0]

SchemaWarning ==
  [label |-> "Could not fetch database schema", prop |-> "", input |-> <<>>,
   match |-> Null, percent |-> 0]

\* variant: the test for an exact match is lost
Includes_Never(options, inputName) == FALSE

\* options.includes(inputName)
Includes(options, inputName) == \E k \in 1..Len(options) : options[k] = inputName

RECURSIVE resolveSelects(_, _, _, _)
\* the loop over the items of a multi_select value, from item i on
resolveSelects(propName, items, options, i) ==
  IF i > Len(items) THEN [names |-> <<>>, warnings |-> <<>>]
  ELSE LET inputName == items[i]
           rest      == resolveSelects(propName, items, options, i + 1)
           match     == findBestMatch(inputName, options, DefaultThreshold)
       IN  IF Includes(options, inputName)
           THEN [names |-> <<inputName>> \o rest.names, warnings |-> rest.warnings]
           ELSE IF match # NoMatch
           THEN [names |-> <<match.match>> \o rest.names,
                 warnings |-> << MatchWarning("Multi-select", propName, inputName, match) >>
                              \o rest.warnings]
           ELSE [names |-> <<inputName>> \o rest.names,
                 warnings |-> << NoMatchWarning("Multi-select", propName, inputName) >>
                              \o rest.warnings]

\* the select and the status branch, options.length > 0
resolveName(label, propName, propValue, options) ==
  LET inputName == propValue.names[1]
      match     == findBestMatch(inputName, options, DefaultThreshold)
  IN  IF Includes(options, inputName) THEN [value |-> propValue, warnings |-> <<>>]
      ELSE IF match # NoMatch
      THEN [value |-> PropValue(propValue.kind, << match.match >>),
            warnings |-> << MatchWarning(label, propName, inputName, match) >>]
      ELSE [value |-> propValue,
            warnings |-> << NoMatchWarning(label, propName, inputName) >>]

\* the body of the loop over the properties: the value that resolved[propName]
\* holds after it, and the warnings it pushed
resolveEntry(propName, propValue, schema) ==
  IF propName \notin DOMAIN schema THEN [value |-> propValue, warnings |-> <<>>]
  ELSE LET schemaProp == schema[propName]
       IN  IF schemaProp.type = "multi_select" /\ propValue.kind = "multi_select"
           THEN LET options == optionNames(schemaProp.options)
                    selects == resolveSelects(propName, propValue.names, options, 1)
                IN  IF Len(options) = 0 THEN [value |-> propValue, warnings |-> <<>>]
                    ELSE [value |-> PropValue("multi_select", selects.names),
                          warnings |-> selects.warnings]
           ELSE IF schemaProp.type = "select" /\ propValue.kind = "select"
                   /\ propValue.names[1] # <<>>
           THEN LET options == optionNames(schemaProp.options)
                IN  IF Len(options) = 0 THEN [value |-> propValue, warnings |-> <<>>]
                    ELSE resolveName("Select", propName, propValue, options)
           ELSE IF schemaProp.type = "status" /\ propValue.kind = "status"
                   /\ propValue.names[1] # <<>>
           THEN LET options == statusOptions(schemaProp)
                IN  IF Len(options) = 0 THEN [value |-> propValue, warnings |-> <<>>]
                    ELSE resolveName("Status", propName, propValue, options)
           ELSE [value |-> propValue, warnings |-> <<>>]

RECURSIVE resolveLoop(_, _, _)
\* the loop over Object.entries(resolved), from entry i on
resolveLoop(properties, schema, i) ==
  IF i > Len(properties) THEN [resolved |-> <<>>, warnings |-> <<>>]
  ELSE LET one  == resolveEntry(properties[i].name, properties[i].value, schema)
           rest == resolveLoop(properties, schema, i + 1)
       IN  [resolved |-> << Entry(properties[i].name, one.value) >> \o rest.resolved,
            warnings |-> one.warnings \o rest.warnings]

\* variant: the properties are dropped when the schema cannot be read
resolvePropertiesWithFuzzyMatch_Drops(properties, fetched, schema) ==
  IF ~fetched THEN [resolved |-> <<>>, warnings |-> << SchemaWarning >>]
  ELSE resolveLoop(properties, schema, 1)

\* fetched is FALSE when the read of the data source schema threw
resolvePropertiesWithFuzzyMatch(properties, fetched, schema) ==
  IF ~fetched THEN [resolved |-> properties, warnings |-> << SchemaWarning >>]
  ELSE resolveLoop(properties, schema, 1)

\* option names of a schema and names a caller supplies
FuzzyNames ==
  { <<"D","o","n","e">>, <<"d","o","n","e"," ">>, <<"D","o">>, <<"o","n","e">>,
    <<"B","o","n","e">>, <<"D","o","n","a">>, <<"B","o","n","a">>, <<"x">>,
    <<"a","a","a">>, <<"b","a","a">>, <<>> }

\* an option of a schema has a name that is not empty
OptionNames == FuzzyNames \ { <<>> }

ScoreInputs == [name : FuzzyNames, options : SeqsUpTo(OptionNames, MaxOptions)]

InitScore ==
  /\ input \in ScoreInputs
  /\ InitPure

BestMatch ==
  /\ output = <<>>
  /\ output' = << findBestMatch(input.name, input.options, DefaultThreshold) >>
  /\ UNCHANGED <<store, input>>

\* findBestMatch applied to one supplied name and one list of option names
SpecScore == InitScore /\ [][BestMatch]_vars

\* names of the properties of the data source
PropNames == {"P", "Q"}

\* values a caller supplies for property P
ValueNames ==
  { <<"D","o","n","e">>, <<"d","o","n","e"," ">>, <<"B","o","n","a">>, <<"x">>, <<>> }

SuppliedValues ==
  { PropValue(kind, << n >>) : kind \in {"select", "status"}, n \in ValueNames }
    \cup { PropValue("multi_select", ns) : ns \in SeqsUpTo(ValueNames, MaxOptions) }

\* the options of property P, ids in schema order
SchemaOptions ==
  { [k \in 1..Len(ns) |-> Option(k, ns[k])] :
      ns \in SeqsUpTo({ <<"D","o","n","e">>, <<"B","o","n","e">>, <<"D","o","n","a">> },
                      MaxOptions) }

\* a status property lists every option in a group; the groups need not follow
\* the order of the options
StatusGroups(options) ==
  { <<>>, << [k \in 1..Len(options) |-> Len(options) + 1 - k] >>,
    [k \in 1..Len(options) |-> << k >>] }

SchemaProps ==
  { SchemaProp(type, options, <<>>) :
      type \in {"select", "multi_select"}, options \in SchemaOptions }
    \cup UNION { { SchemaProp("status", options, groups) : groups \in StatusGroups(options) } :
                 options \in SchemaOptions }

\* property Q is a multi_select with the one option Done
SchemaQ == SchemaProp("multi_select", << Option(1, <<"D","o","n","e">>) >>, <<>>)

Schemas == { [n \in {"Q"} |-> SchemaQ] }
             \cup { [n \in PropNames |-> IF n = "P" THEN sp ELSE SchemaQ] : sp \in SchemaProps }

ResolveInputs ==
  { [properties |-> << Entry("P", v) >> \o q, schema |-> sc] :
      v \in SuppliedValues, sc \in Schemas,
      q \in { <<>>, << Entry("Q", PropValue("multi_select", << <<"D","o","n","e">> >>)) >>,
              << Entry("Q", PropValue("multi_select", << <<"x">> >>)) >> } }

InitResolve ==
  /\ input \in ResolveInputs
  /\ InitPure

Resolve ==
  /\ output = <<>>
  /\ output' = << resolvePropertiesWithFuzzyMatch(input.properties, TRUE, input.schema) >>
  /\ UNCHANGED <<store, input>>

\* the resolver applied to the properties of one call, the schema read
SpecResolve == InitResolve /\ [][Resolve]_vars

\* ------------------------------------------------------------- notion-page
\* The create and update actions of the notion-page tool, invoked without icon,
\* template_id and initial_content. A page's properties are a function from
\* the property names to values; Unset is a property the page has no value for.
AllNames == PropNames \cup {"Rel", "title"}

Unset == PropValue("none", <<>>)

\* ids of pages a relation may hold
RelIds == { <<"r","1">>, <<"r","2">> }

\* [...new Set(ids)]: the first occurrence of every id, in order
unique(ids) ==
  LET keep   == { i \in 1..Len(ids) : \A j \in 1..(i - 1) : ids[j] # ids[i] }
      nth(k) == CHOOSE i \in keep : Cardinality({ j \in keep : j < i }) = k - 1
  IN  [k \in 1..Cardinality(keep) |-> ids[nth(k)]]

\* variant: append keeps the ids that are already on the page a second time
relationIds_AppendAll(existingIds, newIds, mode) ==
  IF mode = "append" THEN existingIds \o newIds
  ELSE IF mode = "remove" THEN SelectSeq(existingIds, LAMBDA id : ~Includes(newIds, id))
  ELSE newIds

\* finalIds of one relation; mode is "" when the caller gave none, and
\* config.mode || 'replace' makes that a replace
relationIds(existingIds, newIds, mode) ==
  IF mode = "append" THEN unique(existingIds \o newIds)
  ELSE IF mode = "remove" THEN SelectSeq(existingIds, LAMBDA id : ~Includes(newIds, id))
  ELSE newIds

\* finalProperties[propName] = value
setProperty(properties, propName, value) ==
  IF \E i \in 1..Len(properties) : properties[i].name = propName
  THEN [i \in 1..Len(properties) |->
          IF properties[i].name = propName THEN Entry(propName, value) ELSE properties[i]]
  ELSE Append(properties, Entry(propName, value))

RECURSIVE applyRelations(_, _, _, _)
\* the loop over Object.entries(relations), from entry i on
applyRelations(finalProperties, relations, pageData, i) ==
  IF i > Len(relations) THEN finalProperties
  ELSE LET config      == relations[i]
           existingIds == IF pageData.properties[config.name].kind = "relation"
                          THEN pageData.properties[config.name].names ELSE <<>>
           finalIds    == relationIds(existingIds, config.ids, config.mode)
       IN  applyRelations(setProperty(finalProperties, config.name,
                                      PropValue("relation", finalIds)),
                          relations, pageData, i + 1)

\* What the remote keeps of a written value: a relation holds a page once.
Stored(value) ==
  IF value.kind = "relation" THEN PropValue("relation", unique(value.names)) ELSE value

\* a page without any value
NoProperties == [P |-> Unset, Q |-> Unset, Rel |-> Unset, title |-> Unset]

\* PATCH /v1/pages/{page_id}: the written properties replace the page's
PatchProperties(old, written) ==
  LET now(n) == IF \E i \in 1..Len(written) : written[i].name = n
                THEN Stored(written[CHOOSE i \in 1..Len(written) : written[i].name = n].value)
                ELSE old[n]
  IN  [P |-> now("P"), Q |-> now("Q"), Rel |-> now("Rel"), title |-> now("title")]

\* POST /v1/pages: a new page with the written properties
PostProperties(written) == PatchProperties(NoProperties, written)

\* the data source of the pages: a select P and a multi_select Q
DataSourceSchema ==
  [n \in PropNames |->
     IF n = "P"
     THEN SchemaProp("select", << Option(1, <<"D","o","n","e">>), Option(2, <<"B","o","n","e">>),
                                 Option(3, <<"D","o","n","a">>) >>, <<>>)
     ELSE SchemaQ]

\* properties arguments of create and update
PageProperties ==
  { <<>>,
    << Entry("P", PropValue("select", << <<"B","o","n","a">> >>)) >>,
    << Entry("P", PropValue("select", << <<"x">> >>)),
       Entry("Q", PropValue("multi_select", << <<"D","o","n","e">>, <<"B","o","n","a">> >>)) >> }

Relation(propName, ids, mode) == [name |-> propName, ids |-> ids, mode |-> mode]

\* relations arguments of update: none, or ids for the relation Rel with a
\* mode or without
RelationConfigs ==
  { <<>> } \cup { << Relation("Rel", ids, mode) >> :
                    ids \in SeqsUpTo(RelIds, MaxOptions),
                    mode \in {"append", "remove", "replace", ""} }

FewRelationConfigs == { <<>>, << Relation("Rel", << <<"r","2">> >>, "append") >> }

PageIdle ==
  [pc |-> "idle", op |-> "none", parent |-> "", properties |-> <<>>, relations |-> <<>>,
   pageData |-> NoRemote, fuzzyResult |-> [resolved |-> <<>>, warnings |-> <<>>]]

PageResult(status, error, warnings) ==
  [status |-> status, error |-> error, fuzzy_matches |-> warnings]

PageCall(o, body, okay) == [op |-> o, body |-> body, ok |-> okay]

\* the invocation that ends when the next one starts
Ended(p) ==
  IF inv[p].op \in {"create", "update"}
  THEN [op |-> inv[p].op, relations |-> inv[p].relations, status |-> result[p].status]
  ELSE NoPrev

SkipWarning ==
  [label |-> "Fuzzy matching skipped", prop |-> "", input |-> <<>>, match |-> Null,
   percent |-> 0]

\* the title argument of create
title == <<"a">>

\* title: { title: textToRichText(title) }: a title without inline markup
\* compiles to one text segment
titleRichText == << TextSeg(title) >>

\* early returns: parent or title missing for create, page_id missing for update
PageInvalid(p) ==
  /\ inv[p].pc = "idle"
  /\ \E op \in {"create", "update"} :
       /\ inv' = [inv EXCEPT ![p] = [PageIdle EXCEPT !.op = op]]
       /\ result' = [result EXCEPT ![p] = PageResult("error", "argument required", <<>>)]
  /\ prev' = Ended(p)
  /\ calls' = [calls EXCEPT ![p] = <<>>]
  /\ ncalls' = ncalls + 1
  /\ UNCHANGED <<page, nextId, pre, logged, input, output, remote>>

\* create in a data source with properties: read the schema and resolve them
CreateResolve(p) ==
  /\ inv[p].pc = "idle"
  /\ \E properties \in PageProperties \ { <<>> }, ok \in BOOLEAN :
       /\ inv' = [inv EXCEPT ![p] =
                    [PageIdle EXCEPT !.pc = "resolved", !.op = "create",
                                     !.parent = "data_source_id",
                                     !.properties = properties,
                                     !.fuzzyResult =
                                        resolvePropertiesWithFuzzyMatch(properties, ok,
                                                                        remote.schema)]]
       /\ calls' = [calls EXCEPT ![p] = << PageCall("retrieve-a-data-source", <<>>, ok) >>]
  /\ result' = [result EXCEPT ![p] = PageResult("none", "", <<>>)]
  /\ prev' = Ended(p)
  /\ ncalls' = ncalls + 1
  /\ UNCHANGED <<page, nextId, pre, logged, input, output, remote>>

\* createProps and the post-page call
CreatePost(p, resolvedProperties, fuzzyWarnings, callsSoFar) ==
  \E ok \in BOOLEAN :
    LET createProps == << Entry("title", PropValue("title", titleRichText)) >>
                         \o resolvedProperties
    IN  /\ calls' = [calls EXCEPT ![p] = Append(callsSoFar, PageCall("post-page", createProps, ok))]
        /\ remote' = IF ok THEN [remote EXCEPT !.created = Append(@, PostProperties(createProps))]
                     ELSE remote
        /\ result' = [result EXCEPT ![p] =
                        IF ok THEN PageResult("ok", "", fuzzyWarnings)
                        ELSE PageResult("threw", "", <<>>)]

\* create under a page, or without properties: no schema is read
CreatePlain(p) ==
  /\ inv[p].pc = "idle"
  /\ \E parent \in {"data_source_id", "parent_page_id"}, properties \in PageProperties :
       /\ (parent = "data_source_id" => properties = <<>>)
       /\ inv' = [inv EXCEPT ![p] = [PageIdle EXCEPT !.op = "create", !.parent = parent,
                                                    !.properties = properties,
                                                    !.fuzzyResult.resolved = properties]]
       /\ CreatePost(p, properties, <<>>, <<>>)
  /\ prev' = Ended(p)
  /\ ncalls' = ncalls + 1
  /\ UNCHANGED <<page, nextId, pre, logged, input, output>>

\* create the page with the resolved properties, return
CreateWrite(p) ==
  /\ inv[p].pc = "resolved" /\ inv[p].op = "create"
  /\ CreatePost(p, inv[p].fuzzyResult.resolved, inv[p].fuzzyResult.warnings, calls[p])
  /\ inv' = [inv EXCEPT ![p].pc = "idle"]
  /\ UNCHANGED <<page, nextId, ncalls, pre, logged, input, output, prev>>

\* update with properties or relations: retrieve the page
UpdateGet(p, Properties, Relations) ==
  /\ inv[p].pc = "idle"
  /\ \E properties \in Properties, relations \in Relations, ok \in BOOLEAN :
       /\ properties # <<>> \/ relations # <<>>
       /\ inv' = [inv EXCEPT ![p] =
                    [PageIdle EXCEPT !.pc = IF ok THEN "fetched" ELSE "idle", !.op = "update",
                                     !.properties = properties, !.relations = relations,
                                     !.fuzzyResult.resolved = properties,
                                     !.pageData = IF ok THEN remote ELSE NoRemote]]
       /\ calls' = [calls EXCEPT ![p] = << PageCall("retrieve-a-page", <<>>, ok) >>]
       /\ result' = [result EXCEPT ![p] =
                       IF ok THEN PageResult("none", "", <<>>) ELSE PageResult("threw", "", <<>>)]
  /\ prev' = Ended(p)
  /\ ncalls' = ncalls + 1
  /\ UNCHANGED <<page, nextId, pre, logged, input, output, remote>>

\* the page is in a data source: read the schema and resolve the properties
UpdateResolve(p) ==
  /\ inv[p].pc = "fetched" /\ inv[p].op = "update"
  /\ inv[p].properties # <<>> /\ inv[p].pageData.parent = "database"
  /\ \E ok \in BOOLEAN :
       /\ inv' = [inv EXCEPT ![p].pc = "resolved",
                             ![p].fuzzyResult =
                                resolvePropertiesWithFuzzyMatch(inv[p].properties, ok,
                                                                remote.schema)]
       /\ calls' = [calls EXCEPT ![p] = Append(@, PageCall("retrieve-a-data-source", <<>>, ok))]
  /\ UNCHANGED <<page, nextId, result, ncalls, pre, logged, input, output, remote, prev>>

\* merge the relations into the properties, patch the page, return
UpdateWrite(p) ==
  /\ inv[p].op = "update"
  /\ \/ inv[p].pc = "resolved"
     \/ inv[p].pc = "fetched" /\ ~(inv[p].properties # <<>> /\ inv[p].pageData.parent = "database")
  /\ \E ok \in BOOLEAN :
       LET fuzzyWarnings   == IF inv[p].pc = "resolved" THEN inv[p].fuzzyResult.warnings
                              ELSE IF inv[p].properties # <<>> THEN << SkipWarning >>
                              ELSE <<>>
           finalProperties == applyRelations(inv[p].fuzzyResult.resolved, inv[p].relations,
                                             inv[p].pageData, 1)
       IN  /\ calls' = [calls EXCEPT ![p] = Append(@, PageCall("patch-page", finalProperties, ok))]
           /\ remote' = IF ok THEN [remote EXCEPT !.properties = PatchProperties(@, finalProperties)]
                        ELSE remote
           /\ result' = [result EXCEPT ![p] =
                           IF ok THEN PageResult("ok", "", fuzzyWarnings)
                           ELSE PageResult("threw", "", <<>>)]
  /\ inv' = [inv EXCEPT ![p].pc = "idle"]
  /\ UNCHANGED <<page, nextId, ncalls, pre, logged, input, output, prev>>

\* the relation a page holds: every id once
StoredRelations == { ids \in SeqsUpTo(RelIds, Cardinality(RelIds)) : unique(ids) = ids }

Remotes ==
  { [parent |-> parent, schema |-> DataSourceSchema,
     properties |-> [NoProperties EXCEPT !.Rel = PropValue("relation", ids)],
     created |-> <<>>] :
      parent \in {"database", "page"}, ids \in StoredRelations }

InitPage ==
  /\ page = <<>>
  /\ InitSlots
  /\ input = <<>>
  /\ output = <<>>
  /\ remote \in Remotes
  /\ prev = NoPrev

NextPage ==
  \/ (ncalls < MaxCalls /\ PageInvalid(1))
  \/ (ncalls < MaxCalls /\ CreateResolve(1))
  \/ (ncalls < MaxCalls /\ CreatePlain(1))
  \/ CreateWrite(1)
  \/ (ncalls < MaxCalls /\ UpdateGet(1, PageProperties, FewRelationConfigs))
  \/ UpdateResolve(1)
  \/ UpdateWrite(1)

\* sequential create and update invocations of notion-page
SpecPage == InitPage /\ [][NextPage]_vars

InitRelations ==
  /\ InitPage
  /\ remote.parent = "database"

NextRelations ==
  \/ (ncalls < MaxCalls /\ UpdateGet(1, { <<>> }, RelationConfigs))
  \/ UpdateWrite(1)

\* sequential updates of the relation of one page
SpecRelations == InitRelations /\ [][NextRelations]_vars

\* ------------------------------------------------------------------ claims
ActivityLog == Chars["Activity Log"]

\* today's date containers inside the Activity Log section of the whole page
SectionTodayToggles(pg) ==
  LET sec == findSectionBlock(pg, ActivityLog)
      sb  == IF sec = 0 THEN <<>> ELSE getSectionBlocks(pg, sec)
  IN  { sb[i].id : i \in { j \in 1..Len(sb) : IsTodayToggle(sb[j]) } }

OnlyEntriesLogged == \A i \in 1..Len(logged) : logged[i].mark = ""

LastLines(b, n) ==
  IF Len(b.children) < n THEN <<>>
  ELSE SubSeq(b.children, Len(b.children) - n + 1, Len(b.children))

\* C1: after n >= 1 sequential add-activity-log calls on one day the Activity
\* Log section holds exactly one date container for that day, and that
\* container ends with the n log lines in call order.
C1_OneContainerPerDay ==
  (inv[1].pc = "idle" /\ logged # <<>> /\ OnlyEntriesLogged) =>
    /\ Cardinality(SectionTodayToggles(page)) = 1
    /\ \A t \in SectionTodayToggles(page) :
         LastLines(page[IndexOfId(page, t)], Len(logged)) = logged

\* the same, for pages that never outgrow one list-children response
C1_OneContainerWithinPageSize ==
  (inv[1].pc = "idle" /\ logged # <<>> /\ OnlyEntriesLogged /\ Len(page) <= PageSize) =>
    /\ Cardinality(SectionTodayToggles(page)) = 1
    /\ \A t \in SectionTodayToggles(page) :
         LastLines(page[IndexOfId(page, t)], Len(logged)) = logged

\* number of buttons that end a block list
ButtonRun(pg) ==
  CHOOSE k \in 0..Len(pg) :
    /\ \A i \in (Len(pg) - k + 1)..Len(pg) : pg[i].type = "button"
    /\ k < Len(pg) => pg[Len(pg) - k].type # "button"

Finished(p, ops) == inv[p].op \in ops /\ inv[p].pc = "idle" /\ result[p].status # "none"
Succeeded(p, ops) == inv[p].op \in ops /\ inv[p].pc = "idle" /\ result[p].status = "ok"

\* C2: on a page without an Activity Log section that ends with k >= 1
\* buttons, add-activity-log puts the new header and date container right
\* before the buttons, which stay the last k blocks.
C2_ButtonsStayLast ==
  (/\ Succeeded(1, {"add-activity-log"})
   /\ findSectionBlock(pre, ActivityLog) = 0
   /\ ButtonRun(pre) >= 1) =>
    LET k == ButtonRun(pre)
        n == Len(pre)
    IN  /\ Len(page) = n + 2
        /\ SubSeq(page, 1, n - k) = SubSeq(pre, 1, n - k)
        /\ page[n - k + 1].type = "callout"
        /\ IsTodayToggle(page[n - k + 2])
        /\ SubSeq(page, n - k + 3, n + 2) = SubSeq(pre, n - k + 1, n)

\* C3: when the section exists without a container for today, the new
\* container goes right after the last button of the section's trailing
\* button run, or right after the header when the section does not end with
\* buttons.
C3_ContainerAfterButtonRun ==
  (/\ Succeeded(1, {"add-activity-log"})
   /\ findSectionBlock(pre, ActivityLog) # 0
   /\ SectionTodayToggles(pre) = {}) =>
    LET sec == findSectionBlock(pre, ActivityLog)
        sb  == getSectionBlocks(pre, sec)
        pos == IF ButtonRun(sb) >= 1 THEN sec + Len(sb) ELSE sec
    IN  /\ Len(page) = Len(pre) + 1
        /\ SubSeq(page, 1, pos) = SubSeq(pre, 1, pos)
        /\ IsTodayToggle(page[pos + 1])
        /\ SubSeq(page, pos + 2, Len(page)) = SubSeq(pre, pos + 1, Len(pre))

\* a block whose text names the section
BlockMatches(block, sectionName) ==
  Truthy(getBlockText(block)) /\ matchesSectionName(getBlockText(block), sectionName)

\* the section a name denotes in a block list: the first matching block and
\* the blocks after it up to the next section header
SectionRange(blocks, name) ==
  LET hs == { i \in 1..Len(blocks) : BlockMatches(blocks[i], name) }
  IN  IF hs = {} THEN {}
      ELSE LET h == CHOOSE i \in hs : \A j \in hs : i <= j
           IN  { i \in h..Len(blocks) :
                   \A j \in (h + 1)..i : ~isSectionHeader(blocks[j]) }

CallTargets(p, o) == { calls[p][i].target : i \in { j \in 1..Len(calls[p]) : calls[p][j].op = o } }
OkCalls(p, o) == { j \in 1..Len(calls[p]) : calls[p][j].op = o /\ calls[p][j].ok }
PageIds(pg) == { pg[i].id : i \in 1..Len(pg) }

AllCallsOk(p) == \A j \in 1..Len(calls[p]) : calls[p][j].ok

SectionOps == {"delete", "replace-section", "replace-page-section"}

\* C4: deleting or replacing a section by name deletes exactly the first
\* matching block and the blocks after it up to the next section header;
\* every other block stays on the page.
C4_DeletesExactlyTheSection ==
  (/\ inv[1].op \in SectionOps /\ inv[1].content # "clear_all"
   /\ inv[1].pc \in {"inserting", "idle"}
   /\ inv[1].ids # <<>>
   /\ AllCallsOk(1)) =>
    LET range == { inv[1].blocks[i].id : i \in SectionRange(inv[1].blocks, Chars[inv[1].arg]) }
    IN  /\ CallTargets(1, "delete") = range
        /\ \A i \in 1..Len(pre) : pre[i].id \notin range => pre[i].id \in PageIds(page)
        /\ \A i \in 1..Len(pre) : pre[i].id \in range => pre[i].id \notin PageIds(page)

ReplaceOps == {"replace-section", "replace-page-section"}

\* C5: after a successful replace-section the new blocks stand where the
\* removed section stood: what preceded the section precedes them, what
\* followed the section follows them.
C5_NewBlocksTakeThePlace ==
  (Succeeded(1, ReplaceOps) /\ AllCallsOk(1)) =>
    LET firstNew == nextId - result[1].inserted_count
        new      == { i \in 1..Len(page) : page[i].id >= firstNew }
        first    == IndexOfId(pre, inv[1].ids[1])
        last     == IndexOfId(pre, inv[1].ids[Len(inv[1].ids)])
    IN  \A i \in 1..Len(page) :
          page[i].id < firstNew =>
            /\ IndexOfId(pre, page[i].id) < first => \A n \in new : i < n
            /\ IndexOfId(pre, page[i].id) > last  => \A n \in new : n < i

\* to-dos of a block list whose text holds item_text, case-insensitively
MatchingTodos(blocks, item_text) ==
  { i \in 1..Len(blocks) :
      /\ blocks[i].type = "to_do"
      /\ includes(toLowerCase(richTextToPlain(blocks[i].rich_text)), toLowerCase(Chars[item_text])) }

TodoOps == {"complete-todo", "complete-checklist-item"}

Listed(p) == calls[p] # <<>> /\ calls[p][1].op = "list" /\ calls[p][1].ok

\* C6: a lookup miss (no block matches section_name, no to-do matches
\* item_text) returns an error after the list call alone: no delete, append
\* or patch call is issued and the page is unchanged.
C6_LookupMissChangesNothing ==
  (/\ Listed(1)
   /\ \/ /\ inv[1].op \in SectionOps /\ inv[1].content # "clear_all"
         /\ SectionRange(inv[1].blocks, Chars[inv[1].arg]) = {}
      \/ /\ inv[1].op \in TodoOps
         /\ MatchingTodos(inv[1].blocks, inv[1].arg) = {}) =>
    /\ inv[1].pc = "idle"
    /\ result[1].status = "error"
    /\ Len(calls[1]) = 1
    /\ page = pre

\* complete-todo has listed a page that holds to-dos, none of them matching
C6_Witness ==
  /\ Listed(1)
  /\ inv[1].op = "complete-todo"
  /\ \E i \in 1..Len(inv[1].blocks) : inv[1].blocks[i].type = "to_do"
  /\ MatchingTodos(inv[1].blocks, inv[1].arg) = {}
  /\ result[1].status = "error"
  /\ inv[1].pc = "idle"

\* C7: when deletions of replace-section fail, the ones performed stay
\* performed, the insertion is still attempted, and deleted_count is the
\* number of deletions that succeeded.
C7_DeletedCountIsWhatSucceeded ==
  (/\ Succeeded(1, ReplaceOps)
   /\ \E j \in 1..Len(calls[1]) : calls[1][j].op = "delete" /\ ~calls[1][j].ok) =>
    /\ \A j \in OkCalls(1, "delete") : calls[1][j].target \notin PageIds(page)
    /\ calls[1][Len(calls[1])].op = "append"
    /\ result[1].deleted_count = Cardinality(OkCalls(1, "delete"))

\* C8: content that compiles to no block makes append and replace-section
\* return an error, without throwing and without deleting or inserting.
C8_EmptyContentChangesNothing ==
  (/\ Finished(1, {"append"} \cup ReplaceOps)
   /\ inv[1].content # ""
   /\ parseStructuredContent(Chars[inv[1].content]) = <<>>
   /\ AllCallsOk(1)) =>
    /\ result[1].status = "error"
    /\ page = pre
    /\ CallTargets(1, "delete") = {} /\ CallTargets(1, "append") = {}

\* the page add-activity-log leaves when it merges `line` into page pg, having
\* listed `blocks`
MergedByAal(pg, blocks, line, newId) == ApplyPlan(pg, AalPlan(blocks, line, newId))

FirstNewId == nextId - (Len(page) - Len(pre))

\* C9 as stated: after the patch complete-todo applies the merge of
\* add-activity-log in all three cases, creating the section when the page
\* has none.
C9_SameMergeAsAddActivityLog ==
  Succeeded(1, {"complete-todo"}) =>
    page = MergedByAal(PatchChecked(pre, inv[1].target), inv[1].blocks, CtLine(1), FirstNewId)

\* C9 amended: with an Activity Log section among the listed blocks,
\* complete-todo applies the merge of add-activity-log (append to today's
\* container, or create it); without one it appends nothing and reports
\* activity_logged = false.
C9_SameMergeWhenSectionExists ==
  Succeeded(1, {"complete-todo"}) =>
    IF findSectionBlock(inv[1].blocks, ActivityLog) # 0
    THEN /\ page = MergedByAal(PatchChecked(pre, inv[1].target), inv[1].blocks, CtLine(1), FirstNewId)
         /\ result[1].activity_logged
    ELSE /\ page = PatchChecked(pre, inv[1].target)
         /\ ~result[1].activity_logged
         /\ CallTargets(1, "append") = {}

C9_Witness ==
  /\ Succeeded(1, {"complete-todo"})
  /\ result[1].activity_logged
  /\ Len(page) = Len(pre) + 1
  /\ LET sec == findSectionBlock(inv[1].blocks, ActivityLog)
     IN  ButtonRun(getSectionBlocks(inv[1].blocks, sec)) >= 1

\* C10: a successful complete-todo issues exactly one block patch, on the
\* first listed to_do whose text contains item_text case-insensitively, and
\* checks that block alone.
C10_PatchesFirstMatchOnly ==
  Succeeded(1, TodoOps) =>
    LET m == MatchingTodos(inv[1].blocks, inv[1].arg)
    IN  /\ m # {}
        /\ Cardinality({ j \in 1..Len(calls[1]) : calls[1][j].op = "patch" }) = 1
        /\ \A t \in CallTargets(1, "patch") :
             /\ IndexOfId(inv[1].blocks, t) \in m
             /\ \A i \in m : IndexOfId(inv[1].blocks, t) <= i
             /\ page[IndexOfId(page, t)].checked
        /\ \A i \in 1..Len(pre) :
             pre[i].id \notin CallTargets(1, "patch") =>
               page[IndexOfId(page, pre[i].id)].checked = pre[i].checked

C10_Witness ==
  /\ Succeeded(1, TodoOps)
  /\ Cardinality(MatchingTodos(inv[1].blocks, inv[1].arg)) >= 2
  /\ 1 \notin MatchingTodos(inv[1].blocks, inv[1].arg)

\* both invocations listed the same page, saw no container for the day, and
\* had their append accepted
BothCreated ==
  /\ ncalls = 2
  /\ \A p \in Procs : /\ inv[p].pc = "idle" /\ result[p].status = "ok"
                       /\ inv[p].blocks = pre
  /\ SectionTodayToggles(pre) = {}

\* C11: two concurrent add-activity-log invocations that both list the page
\* before either appends, and both see no date container for the day, each
\* create one: the page ends with two date containers for the same day.
C11_RaceCreatesTwoContainers ==
  BothCreated =>
    /\ Cardinality(TodayToggles(page)) = Cardinality(TodayToggles(pre)) + 2
    /\ findSectionBlock(pre, ActivityLog) # 0 =>
         Cardinality(SectionTodayToggles(page)) = 2

C11_Witness ==
  /\ BothCreated
  /\ findSectionBlock(pre, ActivityLog) # 0
  /\ Cardinality(SectionTodayToggles(page)) = 2
  /\ calls[1][1].op = "list" /\ calls[2][1].op = "list"

RECURSIVE concatContent(_)
\* the text of a segment list: the contents in order
concatContent(segs) ==
  IF segs = <<>> THEN <<>> ELSE segs[1].content \o concatContent(Tail(segs))

RECURSIVE Keep(_, _, _)
\* the characters of s at the positions of set P, in order
Keep(s, P, i) ==
  IF i > Len(s) THEN <<>>
  ELSE (IF i \in P THEN <<s[i]>> ELSE <<>>) \o Keep(s, P, i + 1)

MentionTypes == {"page", "database", "user"}

\* positions of s taken by the delimiter syntax of the kept spans: all of a
\* span but its first group
DelimiterPositions(s) ==
  LET spans == filteredSpans(s)
  IN  UNION { (spans[k].start..(spans[k].cstart - 1))
                \cup ((spans[k].cstart + Len(spans[k].content))..(spans[k].end - 1)) :
              k \in 1..Len(spans) }

\* positions of the bracketed title of a @page, @db or @user mention
MentionTitlePositions(s) ==
  LET spans == filteredSpans(s)
  IN  UNION { spans[k].cstart..(spans[k].cstart + Len(spans[k].content) - 1) :
              k \in { j \in 1..Len(spans) : spans[j].type \in MentionTypes } }

\* C12 as stated: the contents of the spans, in order, are the input without
\* its delimiter syntax; mention titles included.
C12_ContentPreserved ==
  output # <<>> =>
    concatContent(output[1]) = Keep(input, (1..Len(input)) \ DelimiterPositions(input), 1)

\* C12 amended: the contents of the spans, in order, are the input without its
\* delimiter syntax and without the titles of @page, @db and @user mentions,
\* whose spans carry the id alone; no other character is dropped or duplicated.
C12_ContentPreservedButMentionTitles ==
  output # <<>> =>
    concatContent(output[1]) =
      Keep(input, (1..Len(input)) \ (DelimiterPositions(input) \cup MentionTitlePositions(input)), 1)

C12_Witness ==
  /\ output # <<>>
  /\ Len(output[1]) = 2
  /\ output[1][1].type = "text" /\ output[1][1].content = <<"b", "-", "c">>
  /\ output[1][2].type = "mention" /\ output[1][2].mention = "user"

\* no inline pattern matches anywhere in s
NoPatternMatches(s) ==
  \A k \in 1..Len(patterns) : execLoop(patterns[k], s, 1) = <<>>

\* C13: a string in which no inline pattern matches (the empty string
\* included) compiles to exactly one plain span holding the input, and no
\* string compiles to an empty array.
C13_PlainTextIsOneSpan ==
  output # <<>> =>
    /\ Len(output[1]) >= 1
    /\ NoPatternMatches(input) => output[1] = << TextSeg(input) >>

C13_Witness ==
  /\ output # <<>>
  /\ NoPatternMatches(input)
  /\ \E i \in 1..Len(input) : input[i] = "*"
  /\ \E i \in 1..Len(input) : input[i] = "["

\* ---------------------------------------------------------- C14, C15, C16
\* the lines of a document, trimmed, without the blank ones
NonBlankLines(doc) ==
  LET lines == split(doc, "\n")
  IN  SelectSeq([k \in 1..Len(lines) |-> trim(lines[k])], LAMBDA l : l # <<>>)

\* no line of the document belongs to a table: none begins with a pipe
NoTableLines(doc) ==
  LET lines == split(doc, "\n")
  IN  \A k \in 1..Len(lines) : ~startsWith(trim(lines[k]), <<"|">>)

\* the rules of a line in the order the contract lists them
RuleOrder ==
  << "divider", "heading", "bulleted item", "numbered item", "checked to-do",
     "unchecked to-do", "quote", "callout", "paragraph" >>

RuleMatches(rule, line) ==
  CASE rule = "divider"         -> line = <<"-","-","-">>
    [] rule = "heading"         -> /\ Len(line) >= 3
                                   /\ line[1] = "h" /\ line[2] \in {"1","2","3"} /\ line[3] = ":"
    [] rule = "bulleted item"   -> Len(line) >= 2 /\ line[1] = "-" /\ line[2] = " "
    [] rule = "numbered item"   -> \E d \in 1..(Len(line) - 2) :
                                     /\ \A j \in 1..d : line[j] \in Digits
                                     /\ line[d + 1] = "." /\ IsSpace(line[d + 2])
    [] rule = "checked to-do"   -> /\ Len(line) >= 4
                                   /\ line[1] = "[" /\ line[2] \in {"x","X"}
                                   /\ line[3] = "]" /\ line[4] = " "
    [] rule = "unchecked to-do" -> Len(line) >= 3 /\ SubSeq(line, 1, 3) = <<"[","]"," ">>
    [] rule = "quote"           -> Len(line) >= 2 /\ line[1] = ">" /\ line[2] = " "
    [] rule = "callout"         -> \/ startsWith(line, <<"!",">"," ">>)
                                   \/ startsWith(line, <<"c","a","l","l","o","u","t",":">>)
                                   \/ startsWith(line, <<"c","a","l","l","o","u","t","[">>)
    [] rule = "paragraph"       -> TRUE

FirstRule(line) == RuleOrder[First({ r \in 1..Len(RuleOrder) : RuleMatches(RuleOrder[r], line) })]

KindOfRule(rule, line) ==
  CASE rule = "divider"         -> "divider"
    [] rule = "heading"         -> IF line[2] = "1" THEN "heading_1"
                                   ELSE IF line[2] = "2" THEN "heading_2" ELSE "heading_3"
    [] rule = "bulleted item"   -> "bulleted_list_item"
    [] rule = "numbered item"   -> "numbered_list_item"
    [] rule = "checked to-do"   -> "to_do"
    [] rule = "unchecked to-do" -> "to_do"
    [] rule = "quote"           -> "quote"
    [] rule = "callout"         -> "callout"
    [] rule = "paragraph"       -> "paragraph"

\* the text of a numbered line after its digits, the dot and one space
AfterNumber(line) ==
  LET dot == First({ j \in 1..Len(line) : line[j] = "." })
  IN  SubSeq(line, dot + 2, Len(line))

Fence == <<Backquote, Backquote, Backquote>>

PlainTextTag == <<"p","l","a","i","n"," ","t","e","x","t">>

\* C15: a line that begins with three backticks compiles to a code block whose
\* language is the rest of the line, or "plain text" when nothing follows the
\* backticks, and the line after it is compiled as a line of its own.
C15_FenceIsCodeBlock ==
  (output # <<>> /\ NoTableLines(input)) =>
    LET ls     == NonBlankLines(input)
        blocks == output[1]
    IN  \A k \in 1..Len(ls) :
          startsWith(ls[k], Fence) =>
            /\ Len(blocks) = Len(ls)
            /\ blocks[k].type = "code"
            /\ blocks[k].language =
                 (IF trim(substring(ls[k], 3)) = <<>> THEN PlainTextTag
                  ELSE trim(substring(ls[k], 3)))
            /\ k < Len(ls) => blocks[k + 1].type = KindOfRule(FirstRule(ls[k + 1]), ls[k + 1])

TrimmedLines(doc) ==
  LET lines == split(doc, "\n")
  IN  [k \in 1..Len(lines) |-> trim(lines[k])]

\* the document is one run of table lines: every line begins with a pipe, and
\* the first one also ends with a pipe, which starts the table
IsOneRun(doc) ==
  LET ls == TrimmedLines(doc)
  IN  /\ \A k \in 1..Len(ls) : startsWith(ls[k], <<"|">>)
      /\ endsWith(ls[1], <<"|">>)

\* a separator row: every field between the pipes holds only spaces, dashes and colons
IsSeparatorRow(line) ==
  /\ Len(line) >= 3
  /\ line[1] = "|" /\ line[Len(line)] = "|"
  /\ \A j \in 1..Len(line) : line[j] \in {"|", " ", "\t", "-", ":"}

DataLines(doc) == SelectSeq(TrimmedLines(doc), LAMBDA l : ~IsSeparatorRow(l))

\* a separator row is the first line of the run or the line after the first data row
SeparatorMarksHeader(doc) ==
  LET ls   == TrimmedLines(doc)
      data == { k \in 1..Len(ls) : ~IsSeparatorRow(ls[k]) }
  IN  \/ IsSeparatorRow(ls[1])
      \/ /\ data # {}
         /\ First(data) + 1 <= Len(ls)
         /\ IsSeparatorRow(ls[First(data) + 1])

\* C17: a run of consecutive table lines with a data line compiles to one table
\* whose rows are the non-separator lines of the run, in order (no separator
\* row becomes a row), and whose has_column_header is true exactly when a
\* separator row is the first line of the run or directly follows the first
\* data row.
C17_SeparatorsSetHeaderOnly ==
  (output # <<>> /\ IsOneRun(input) /\ DataLines(input) # <<>>) =>
    LET data   == DataLines(input)
        blocks == output[1]
    IN  /\ Len(blocks) = 1
        /\ blocks[1].type = "table"
        /\ Len(blocks[1].children) = Len(data)
        /\ \A r \in 1..Len(data) :
             blocks[1].children[r].cells =
               [k \in 1..Len(parseTableRow(data[r])) |-> PlainRichText(parseTableRow(data[r])[k])]
        /\ blocks[1].has_column_header <=> SeparatorMarksHeader(input)

Tables(blocks) == { i \in 1..Len(blocks) : blocks[i].type = "table" }

\* C18: the width of every compiled table is the largest number of cells of
\* its data rows, and every row of the table holds exactly that many cells.
C18_RowsHaveWidthCells ==
  output # <<>> =>
    \A i \in Tables(output[1]) :
      LET t == output[1][i]
      IN  /\ \E r \in 1..Len(t.children) : Len(t.children[r].cells) = t.table_width
          /\ \A r \in 1..Len(t.children) : Len(t.children[r].cells) = t.table_width

\* ------------------------------------------------------------- C19, C20
RECURSIVE WordsFrom(_, _, _)
\* the words of a text from position i on, cur being the word read so far:
\* letters are lowercased, a hyphen, an underscore or white space ends a word,
\* any other character that is no letter and no digit is left out
WordsFrom(s, i, cur) ==
  IF i > Len(s) THEN (IF cur = <<>> THEN <<>> ELSE <<cur>>)
  ELSE IF s[i] \in {"-", "_", " ", "\t", "\n"}
       THEN (IF cur = <<>> THEN <<>> ELSE <<cur>>) \o WordsFrom(s, i + 1, <<>>)
  ELSE IF s[i] \in Digits \/ (\E j \in 1..26 : Lower[j] = s[i] \/ Upper[j] = s[i])
       THEN WordsFrom(s, i + 1, Append(cur, LowerChar(s[i])))
  ELSE WordsFrom(s, i + 1, cur)

RECURSIVE SpaceJoined(_)
SpaceJoined(ws) ==
  IF Len(ws) = 0 THEN <<>>
  ELSE IF Len(ws) = 1 THEN ws[1]
  ELSE ws[1] \o <<" ">> \o SpaceJoined(Tail(ws))

\* the normalized form of a text: its words, one space between them
Normalized(s) == SpaceJoined(WordsFrom(s, 1, <<>>))

Contains(s, p) == \E i \in 0..(Len(s) - Len(p)) : \A j \in 1..Len(p) : s[i + j] = p[j]

\* the aliases configured for a section name, whatever its letter case
ConfiguredAliases(name) ==
  IF toLowerCase(name) = <<"t","o"," ","d","o">>
  THEN { ToDoAliases[a] : a \in 1..Len(ToDoAliases) }
  ELSE IF toLowerCase(name) = <<"a","c","t","i","v","i","t","y"," ","l","o","g">>
       THEN { ActivityLogAliases[a] : a \in 1..Len(ActivityLogAliases) }
  ELSE {}

\* C19: a text matches a section name exactly when its normalized form
\* (lowercased, hyphens and underscores as spaces, punctuation left out, white
\* space collapsed) contains the normalized name or the normalized form of an
\* alias configured for that name.
C19_MatchesNameOrAlias ==
  output # <<>> =>
    (output[1] <=>
       \/ Contains(Normalized(input.text), Normalized(input.sectionName))
       \/ \E a \in ConfiguredAliases(input.sectionName) :
            Contains(Normalized(input.text), Normalized(a)))

\* "Checklist" matches the target "to do" through an alias
C19_Witness ==
  /\ output = << TRUE >>
  /\ input.text = <<"C","h","e","c","k","l","i","s","t">>
  /\ input.sectionName = <<"t","o"," ","d","o">>

FirstSpanBold(b) == Len(b.rich_text) > 0 /\ b.rich_text[1].bold

IsHeading(b) == b.type \in {"heading_1", "heading_2", "heading_3"}

\* eligible as the contract words it: a callout needs a bold first span
EligibleBoldCallout(b) ==
  \/ IsHeading(b)
  \/ b.type = "toggle"
  \/ (b.type \in {"callout", "paragraph"} /\ FirstSpanBold(b))

\* eligible with every callout, bold or not
EligibleAnyCallout(b) ==
  \/ IsHeading(b)
  \/ b.type \in {"toggle", "callout"}
  \/ (b.type = "paragraph" /\ FirstSpanBold(b))

TextMatches(b, name) == matchesSectionName(richTextToPlain(b.rich_text), name)

\* C20 as stated: the locator returns the lowest index of a block that is a
\* heading, a toggle, or a callout or paragraph with a bold first span, and
\* that matches the name; it returns null (0) when there is no such block.
C20_FirstEligibleMatch ==
  output # <<>> =>
    LET hits == { i \in 1..Len(input.blocks) :
                    /\ EligibleBoldCallout(input.blocks[i])
                    /\ TextMatches(input.blocks[i], input.sectionName) }
    IN  /\ output[1] = (IF hits = {} THEN 0 ELSE First(hits))
        /\ output[1] # 0 => EligibleBoldCallout(input.blocks[output[1]])

\* C20 amended: the same with every callout eligible, whatever its emphasis.
C20_FirstEligibleMatchAnyCallout ==
  output # <<>> =>
    LET hits == { i \in 1..Len(input.blocks) :
                    /\ EligibleAnyCallout(input.blocks[i])
                    /\ TextMatches(input.blocks[i], input.sectionName) }
    IN  /\ output[1] = (IF hits = {} THEN 0 ELSE First(hits))
        /\ output[1] # 0 => EligibleAnyCallout(input.blocks[output[1]])

\* a callout without emphasis is returned: the matching list item or plain
\* paragraph before it is passed over, the matching heading after it is not reached
C20_Witness ==
  /\ output = << 2 >>
  /\ Len(input.blocks) = 3
  /\ input.blocks[1].type \in {"bulleted_list_item", "paragraph"}
  /\ TextMatches(input.blocks[1], input.sectionName)
  /\ input.blocks[2].type = "callout" /\ ~FirstSpanBold(input.blocks[2])
  /\ IsHeading(input.blocks[3])
  /\ TextMatches(input.blocks[3], input.sectionName)

\* ------------------------------------------------------------- C26, C27
\* the candidate spans of a text and the ones the sweep keeps
Candidates(s) ==
  LET spans == allSpans(s, 1)
  IN  { spans[k] : k \in 1..Len(spans) }

KeptSpans(s) ==
  LET spans == filteredSpans(s)
  IN  { spans[k] : k \in 1..Len(spans) }

\* place of a pattern in the order of registration
Registered(type) == First({ k \in 1..Len(patterns) : patterns[k].type = type })

Overlap(x, y) == x.start < y.end /\ y.start < x.end

\* x is met before y by a sweep from left to right, registration order deciding
\* between spans that start together
SweptBefore(x, y) ==
  \/ x.start < y.start
  \/ (x.start = y.start /\ Registered(x.type) < Registered(y.type))

\* C26 as stated: of two overlapping candidates of different patterns, the one
\* of the pattern registered later is never the one that is kept.
C26_EarlierRegisteredWins ==
  output # <<>> =>
    LET cs   == Candidates(input)
        kept == KeptSpans(input)
    IN  \A y \in kept : \A x \in cs :
          ~(Overlap(x, y) /\ Registered(x.type) < Registered(y.type))

\* C26 amended: a candidate is discarded exactly when a kept candidate that the
\* sweep met before it (one that starts earlier, or starts at the same place and
\* belongs to a pattern registered earlier) reaches past its start.
C26_EarlierStartWins ==
  output # <<>> =>
    LET cs   == Candidates(input)
        kept == KeptSpans(input)
    IN  \A c \in cs :
          (c \notin kept) <=> \E k \in kept : SweptBefore(k, c) /\ k.end > c.start

\* a page mention between bold delimiters: the bold candidate starts first and
\* is kept, the mention and the link inside it are discarded
C26_Witness ==
  /\ input = <<"*","*","@","p","a","g","e","[","a","]","(","u",")","*","*">>
  /\ output = << << [TextSeg(<<"@","p","a","g","e","[","a","]","(","u",")">>)
                       EXCEPT !.annotations = {"bold"}] >> >>
  /\ \E c \in Candidates(input) : c.type = "page" /\ c \notin KeptSpans(input)

\* a segment that is no plain text between spans
FromSpan(seg) == seg.type = "mention" \/ seg.annotations # {} \/ seg.link # <<>>

\* C27: the kept spans are in strictly increasing order of start, each starts
\* at or after the end of the one kept before it, and the segments emitted for
\* them come in that same order.
C27_KeptSpansOrdered ==
  output # <<>> =>
    LET kept == filteredSpans(input)
    IN  /\ \A k \in 1..(Len(kept) - 1) :
             /\ kept[k].start < kept[k + 1].start
             /\ kept[k].end <= kept[k + 1].start
        /\ SelectSeq(output[1], FromSpan) = [k \in 1..Len(kept) |-> spanSegment(kept[k])]

\* a mention followed by bold text: two spans kept, the link inside the mention discarded
C27_Witness ==
  /\ output # <<>>
  /\ Len(filteredSpans(input)) = 2
  /\ Len(allSpans(input, 1)) = 3
  /\ Len(output[1]) = 2
  /\ output[1][1].type = "mention" /\ output[1][2].annotations = {"bold"}

\* ------------------------------------------------------------------ C28
\* a block that ends a section as the contract words it: a heading, or a
\* callout or paragraph whose first span is bold
EndsSection(b) ==
  \/ IsHeading(b)
  \/ (b.type \in {"callout", "paragraph"} /\ FirstSpanBold(b))

\* C28: the blocks of a section are the run that starts right after the
\* header and ends right before the next heading, callout with a bold first
\* span or paragraph with a bold first span, or at the end of the list.
C28_RunUpToNextHeader ==
  output # <<>> =>
    LET blocks == input.blocks
        next   == { i \in (input.sectionIndex + 1)..Len(blocks) : EndsSection(blocks[i]) }
        last   == IF next = {} THEN Len(blocks) ELSE First(next) - 1
    IN  output[1] = SubSeq(blocks, input.sectionIndex + 1, last)

\* ------------------------------------------------------------------ C30
\* top-level headings and callouts of the page that read Activity Log
ActivityLogHeaders(pg) ==
  { i \in 1..Len(pg) :
      /\ pg[i].type \in {"heading_1", "heading_2", "heading_3", "callout"}
      /\ matchesSectionName(richTextToPlain(pg[i].rich_text), ActivityLog) }

\* C30: after two sequential add-activity-log calls on a page that held more
\* than PageSize top-level blocks, the page has exactly one Activity Log
\* section header and exactly one date container for the day.
C30_OneSectionOnLongPage ==
  (inv[1].pc = "idle" /\ Len(logged) = 2) =>
    /\ Cardinality(ActivityLogHeaders(page)) = 1
    /\ Cardinality(TodayToggles(page)) = 1

\* ---------------------------------------------------------------- claim C25
\* the operations of the remote calls an invocation has issued so far, in order
CallOps(p) == [k \in 1..Len(calls[p]) |-> calls[p][k].op]

\* the orders of remote calls the two tools may issue
CallOrders(op) ==
  IF op = "add-activity-log" THEN { <<>>, <<"list">>, <<"list", "append">> }
  ELSE { <<>>, <<"list">>, <<"list", "patch">>, <<"list", "patch", "append">> }

\* C25: within one add-activity-log or complete-todo invocation the remote
\* calls are issued one after another, list-children first, then (complete-todo
\* only) the to-do patch, then at most one append; a call that failed is the
\* last call of the invocation (nothing is issued again after it), the
\* invocation has ended and the caller got the failure, and the caller gets a
\* failure thrown only from a failed call.
C25_CallsInOrderNoRetry ==
  \A p \in Procs :
    inv[p].op \in {"add-activity-log", "complete-todo"} =>
      /\ CallOps(p) \in CallOrders(inv[p].op)
      /\ \A k \in 1..Len(calls[p]) :
           ~calls[p][k].ok =>
             /\ k = Len(calls[p])
             /\ inv[p].pc = "idle"
             /\ result[p] = Threw
      /\ result[p] = Threw =>
           (calls[p] # <<>> /\ ~calls[p][Len(calls[p])].ok)

\* a complete-todo whose list and patch succeeded and whose append failed
C25_Witness ==
  /\ inv[1].op = "complete-todo"
  /\ CallOps(1) = <<"list", "patch", "append">>
  /\ calls[1][1].ok /\ calls[1][2].ok /\ ~calls[1][3].ok
  /\ result[1] = Threw
\* ---------------------------------------------------------------- claim C29
\* p is a prefix of s
IsPrefix(p, s) == \E k \in 0..Len(s) : SubSeq(s, 1, k) = p

\* the pairs of adjacent characters of s
BigramSet(s) == { <<s[k], s[k + 1]>> : k \in 1..(Len(s) - 1) }

SameScore(x, y) == x.num * y.den = y.num * x.den

\* the score as it is stated, for two texts already lowercased and trimmed
StatedScore(a, b) ==
  IF a = b THEN Score(10, 10)
  ELSE IF IsPrefix(a, b) \/ IsPrefix(b, a) THEN Score(9, 10)
  ELSE IF Contains(a, b) \/ Contains(b, a) THEN Score(8, 10)
  ELSE IF BigramSet(a) = {} \/ BigramSet(b) = {} THEN Score(0, 10)
  ELSE Score(2 * Cardinality(BigramSet(a) \cap BigramSet(b)),
             Cardinality(BigramSet(a)) + Cardinality(BigramSet(b)))

\* C29: the similarity score of two strings, compared lowercased and trimmed,
\* is 1.0 when they are equal, else 0.9 when either is a prefix of the other,
\* else 0.8 when either contains the other, else the Dice coefficient over
\* their bigram sets (0 when either has no bigram); the score lies in [0,1];
\* the best match is the first option, in the order of the options, that
\* attains the highest score.
C29_ScoreAndFirstBest ==
  output # <<>> =>
    LET n      == Len(input.options)
        scores == [k \in 1..n |-> stringSimilarity(input.name, input.options[k])]
        tops   == { k \in 1..n : \A j \in 1..n : ~ScoreLess(scores[k], scores[j]) }
    IN  /\ \A k \in 1..n :
             /\ SameScore(scores[k],
                          StatedScore(trim(toLowerCase(input.name)),
                                      trim(toLowerCase(input.options[k]))))
             /\ scores[k].den > 0
             /\ 0 <= scores[k].num /\ scores[k].num <= scores[k].den
        /\ output[1] # NoMatch =>
             /\ output[1].match = input.options[First(tops)]
             /\ SameScore(output[1].score, scores[First(tops)])
        /\ (n > 0 /\ ~ScoreLess(scores[First(tops)], DefaultThreshold)) => output[1] # NoMatch

\* two options tie at 2 * 2 / (3 + 3) and the earlier one is the best match
C29_Witness ==
  /\ input.name = <<"B","o","n","a">>
  /\ input.options = << <<"B","o","n","e">>, <<"D","o","n","a">> >>
  /\ output = << [match |-> <<"B","o","n","e">>, score |-> Score(4, 6)] >>
\* ---------------------------------------------------------------- claim C21
\* the names of the options of a property of the schema
KnownNames(sch, propName) ==
  IF propName \in DOMAIN sch
  THEN { sch[propName].options[k].name : k \in 1..Len(sch[propName].options) }
  ELSE {}

\* element k of entry i is exactly a known option of its property
IsExact(i, k) ==
  input.properties[i].value.names[k] \in KnownNames(input.schema, input.properties[i].name)

\* the elements of the supplied values: entry and position
Elements ==
  { e \in (1..Len(input.properties)) \X (1..MaxOptions) :
      e[2] <= Len(input.properties[e[1]].value.names) }

\* C21: every select, status or multi-select value that is exactly equal to a
\* known option of its property is passed through unchanged and no warning
\* names it; a call whose values are all exact matches returns no warning.
C21_ExactPassesSilently ==
  output # <<>> =>
    LET res == output[1]
    IN  /\ Len(res.resolved) = Len(input.properties)
        /\ \A e \in Elements :
             IsExact(e[1], e[2]) =>
               LET supplied == input.properties[e[1]]
               IN  /\ res.resolved[e[1]].name = supplied.name
                   /\ res.resolved[e[1]].value.kind = supplied.value.kind
                   /\ Len(res.resolved[e[1]].value.names) = Len(supplied.value.names)
                   /\ res.resolved[e[1]].value.names[e[2]] = supplied.value.names[e[2]]
                   /\ ~\E j \in 1..Len(res.warnings) :
                         /\ res.warnings[j].prop = supplied.name
                         /\ res.warnings[j].input = supplied.value.names[e[2]]
        /\ (\A e \in Elements : IsExact(e[1], e[2])) =>
             /\ res.warnings = <<>>
             /\ res.resolved = input.properties

\* a select and a multi-select value that are options of their properties
C21_Witness ==
  /\ input.properties =
       << Entry("P", PropValue("select", << <<"D","o","n","e">> >>)),
          Entry("Q", PropValue("multi_select", << <<"D","o","n","e">> >>)) >>
  /\ "P" \in DOMAIN input.schema
  /\ input.schema["P"] =
       SchemaProp("select", << Option(1, <<"B","o","n","e">>), Option(2, <<"D","o","n","e">>) >>, <<>>)
  /\ output = << [resolved |-> input.properties, warnings |-> <<>>] >>

\* ---------------------------------------------------------------- claim C22
\* element k of entry i is a value of a property of its own type that has at
\* least one option, and is not exactly one of the options; a select or status
\* value is a name that is not empty
IsInexact(i, k) ==
  LET supplied == input.properties[i]
  IN  /\ supplied.name \in DOMAIN input.schema
      /\ input.schema[supplied.name].type = supplied.value.kind
      /\ KnownNames(input.schema, supplied.name) # {}
      /\ ~IsExact(i, k)
      /\ (supplied.value.kind \in {"select", "status"} => supplied.value.names[k] # <<>>)

\* the options of a property that attain the highest score for a name
BestOptions(propName, n) ==
  { o \in KnownNames(input.schema, propName) :
      \A o2 \in KnownNames(input.schema, propName) :
        ~ScoreLess(stringSimilarity(n, o), stringSimilarity(n, o2)) }

\* p is the score as a percentage, to the nearest unit
IsPercentOf(p, score) ==
  LET diff == 100 * score.num - p * score.den
  IN  2 * diff <= score.den /\ -2 * diff <= score.den

FailedSchemaReads ==
  { k \in 1..Len(calls[1]) :
      calls[1][k].op = "retrieve-a-data-source" /\ ~calls[1][k].ok }

\* C23: when the schema read fails the resolver returns every supplied
\* property unchanged with exactly one warning and does not throw, and the
\* create or update goes on to its write, which carries those properties; the
\* warning is returned when the write succeeds.
C23_SchemaFailureIsNotFatal ==
  FailedSchemaReads # {} =>
    LET k    == First(FailedSchemaReads)
        last == calls[1][Len(calls[1])]
    IN  /\ inv[1].fuzzyResult.resolved = inv[1].properties
        /\ Len(inv[1].fuzzyResult.warnings) = 1
        /\ inv[1].pc \in {"resolved", "idle"}
        /\ inv[1].pc = "resolved" =>
             /\ k = Len(calls[1])
             /\ result[1].status = "none"
        /\ inv[1].pc = "idle" =>
             /\ k = Len(calls[1]) - 1
             /\ last.op = (IF inv[1].op = "create" THEN "post-page" ELSE "patch-page")
             /\ \A i \in 1..Len(inv[1].properties) :
                  \E j \in 1..Len(last.body) : last.body[j] = inv[1].properties[i]
             /\ result[1].status = (IF last.ok THEN "ok" ELSE "threw")
             /\ last.ok => Len(result[1].fuzzy_matches) = 1

\* an update whose schema read failed and whose patch wrote the supplied value
C23_Witness ==
  /\ inv[1].pc = "idle" /\ inv[1].op = "update"
  /\ inv[1].properties = << Entry("P", PropValue("select", << <<"B","o","n","a">> >>)) >>
  /\ Len(calls[1]) = 3
  /\ calls[1][1].ok /\ ~calls[1][2].ok /\ calls[1][3].ok
  /\ calls[1][3].op = "patch-page"
  /\ result[1] = PageResult("ok", "", << SchemaWarning >>)
  /\ remote.properties["P"] = PropValue("select", << <<"B","o","n","a">> >>)

\* ---------------------------------------------------------------- claim C24
\* the ids of E that are not in N, in the order of E
Without(E, N) ==
  SelectSeq(E, LAMBDA id : \A k \in 1..Len(N) : N[k] # id)

RECURSIVE Once(_)
\* the ids of N, each once, in the order they first occur
Once(N) ==
  IF N = <<>> THEN <<>>
  ELSE LET front == Once(SubSeq(N, 1, Len(N) - 1))
       IN  IF \E k \in 1..Len(front) : front[k] = N[Len(N)] THEN front
           ELSE Append(front, N[Len(N)])

NoDuplicates(ids) == \A j, k \in 1..Len(ids) : ids[j] = ids[k] => j = k

\* the relation as it is stated for a mode
StatedRelation(E, N, mode) ==
  IF mode = "append" THEN E \o Without(Once(N), E)
  ELSE IF mode = "remove" THEN Without(E, N)
  ELSE N

\* C24: a page update that succeeded wrote, for its relation, the ids the mode
\* yields from the ids E the page had and the supplied ids N: append E followed
\* by the ids of N not already present, without duplicates; remove E without
\* the ids in N; replace, and no mode, N itself; and when it repeats the append
\* or remove of the update before it, the page's relation is what it was.
C24_RelationModes ==
  (inv[1].op = "update" /\ inv[1].pc = "idle" /\ result[1].status = "ok"
     /\ inv[1].relations # <<>>) =>
    LET config  == inv[1].relations[1]
        E       == inv[1].pageData.properties[config.name].names
        body    == calls[1][Len(calls[1])].body
        written == body[First({ j \in 1..Len(body) : body[j].name = config.name })].value
    IN  /\ written.kind = "relation"
        /\ written.names = StatedRelation(E, config.ids, config.mode)
        /\ config.mode = "append" => NoDuplicates(written.names)
        /\ remote.properties[config.name] = PropValue("relation", Once(written.names))
        /\ (prev.op = "update" /\ prev.status = "ok" /\ prev.relations = inv[1].relations
              /\ config.mode \in {"append", "remove"}) =>
             /\ written.names = E
             /\ remote.properties[config.name] = inv[1].pageData.properties[config.name]

\* the same append twice: the second leaves the relation r1, r2 as it was
C24_Witness ==
  /\ inv[1].op = "update" /\ inv[1].pc = "idle" /\ result[1].status = "ok"
  /\ inv[1].relations = << Relation("Rel", << <<"r","2">> >>, "append") >>
  /\ prev = [op |-> "update", relations |-> inv[1].relations, status |-> "ok"]
  /\ inv[1].pageData.properties["Rel"].names = << <<"r","1">>, <<"r","2">> >>
  /\ remote.properties["Rel"].names = << <<"r","1">>, <<"r","2">> >>
====
